---- MODULE Spec2Model ----
(***************************************************************************)
(* A model of the GA4 Dataform pipeline's configuration helpers and SQL    *)
(* generators (includes/helper.js, includes/sql_generators.js,             *)
(* includes/core_config.js, includes/client_config.js).                    *)
(*                                                                         *)
(* The JavaScript functions are pure functions of the module-level         *)
(* `config` object; each is an operator over the state variable `config`,  *)
(* and each action calls one exported function, recording its name in      *)
(* `call`, its arguments in `arguments` and what it returned or threw in   *)
(* `ret`.                                                                  *)
(*                                                                         *)
(* Generated SQL text is modelled by its structure: a field expression is  *)
(* a record, a comma-joined list of expressions is a sequence.             *)
(***************************************************************************)
EXTENDS Integers, Sequences, FiniteSets, TLC

VARIABLES config, env, call, arguments, ret

vars == <<config, env, call, arguments, ret>>

-----------------------------------------------------------------------------
(* JavaScript values *)

\* The JS `undefined` and `null` of an optional string-valued field.
undefined == "undefined"
null == "null"

\* JS truthiness of an optional string: `if (param.consolidated_name)`.
Truthy(x) == x \notin {undefined, null, ""}

Range(s) == {s[i] : i \in 1..Len(s)}

\* Array.prototype.map
Map(F(_), s) == [i \in 1..Len(s) |-> F(s[i])]

\* Set.prototype.add over an insertion-ordered Set
SetAdd(s, x) == IF x \in Range(s) THEN s ELSE Append(s, x)

RECURSIVE SetAddAll(_, _)
SetAddAll(s, xs) ==
  IF xs = <<>> THEN s ELSE SetAddAll(SetAdd(s, Head(xs)), Tail(xs))

-----------------------------------------------------------------------------
(* Bounds of the model *)

\* Longest web / app parameter catalog drawn by Init.
MaxCatalogLen == 2
\* Most streams declared in one property of PROPERTIES_CONFIG.
MaxStreams == 2
\* Longest parameter array handed to the extraction functions.
MaxParams == 2
\* Largest ROLLING_REFRESH_DAYS a configuration sets.
MaxWindow == 3

-----------------------------------------------------------------------------
(* Configuration values drawn by Init *)

StreamTypes == {"web", "app"}
DataStreamTypes == {"web", "app", "both"}

CoreNames == <<"engagement_time_msec", "ga_session_number">>
WebNames == <<"page_location", "page_title", "link_url", "video_url">>
AppNames == <<"firebase_screen", "firebase_screen_class", "firebase_conversion", "firebase_screen_id">>
CustomNames == <<"blog_word_count", "blog_word_count_cohort">>
ConsolidatedNames == {"screen_location", "screen_title"}

Param(n, t, c) == [name |-> n, type |-> t, consolidated_name |-> c]

\* Catalogs of at most n parameters named names[1], names[2], ..., each with
\* any (or no) consolidated_name.
Catalogs(names, n) ==
  UNION { { [i \in 1..k |-> Param(names[i], "string", f[i])] :
              f \in [1..k -> {undefined} \cup ConsolidatedNames] } : k \in 0..n }

\* Catalogs whose parameters declare no consolidated_name (core, custom).
PlainCatalog(names, k) == [i \in 1..k |-> Param(names[i], "int", undefined)]

PropertyNames == <<"main_website", "mobile_app">>
\* Stream ids of main_website, then (from StreamIdOffset on) of mobile_app.
StreamIds == <<"1234567890", "0987654321", "1111111111",
               "5555555555", "6666666666", "7777777777">>

Stream(id, inc, t, f) ==
  [stream_id |-> id, include |-> inc, stream_type |-> t, use_fresh_daily |-> f]

\* The `streams` objects of one property with at most n streams, as the
\* key-ordered list of entries.
StreamLists(n, first) ==
  UNION { { [i \in 1..k |->
               Stream(StreamIds[first + i - 1], f[i][1], f[i][2], undefined)] :
              f \in [1..k -> {"true", "false", undefined} \X StreamTypes] } :
          k \in 0..n }

Property(n, s) ==
  [property_name |-> n,
   source_dataset |-> IF n = "mobile_app" THEN "analytics_987654321"
                                          ELSE "analytics_123456789",
   streams |-> s]

\* PROPERTIES_CONFIG objects, as the key-ordered list of their properties:
\* none, main_website alone (at most MaxStreams streams), or main_website
\* and mobile_app (one stream fewer).
PropertiesConfigs ==
  {<<>>}
  \cup { <<Property(PropertyNames[1], s)>> : s \in StreamLists(MaxStreams, 1) }
  \cup { <<Property(PropertyNames[1], s), Property(PropertyNames[2], t)>> :
            s \in StreamLists(MaxStreams, 1),
            t \in StreamLists(MaxStreams - 1, 4) }

NoProperties == [isNull |-> TRUE, properties |-> <<>>]
Properties(ps) == [isNull |-> FALSE, properties |-> ps]

\* The absent YYYYMMDD date (null)
NoDate == 0

DefaultConfig ==
  [ PROPERTIES_CONFIG |-> NoProperties,
    DATA_STREAM_TYPE |-> "web",
    CONSOLIDATE_WEB_APP_PARAMS |-> FALSE,
    USE_FRESH_DAILY |-> FALSE,
    CORE_PARAMS_ARRAY |-> PlainCatalog(CoreNames, 2),
    WEB_PARAMS_ARRAY |->
      << Param("link_url", "string", undefined),
         Param("page_location", "string", "screen_location") >>,
    APP_PARAMS_ARRAY |->
      << Param("firebase_conversion", "int", undefined),
         Param("firebase_screen", "string", "screen_location") >>,
    CUSTOM_PARAMS_ARRAY |-> PlainCatalog(CustomNames, 2),
    CORE_USER_PROPS_ARRAY |-> << Param("user_type", "string", undefined) >>,
    CUSTOM_ITEMS_PARAMS |-> <<>>,
    FORCE_FULL_BACKFILL |-> FALSE,
    BACKFILL_START_DATE |-> NoDate,
    BACKFILL_END_DATE |-> NoDate,
    INITIAL_LOAD_DAYS |-> 7,
    ROLLING_REFRESH_DAYS |-> 3,
    RECONCILIATION_LOOKBACK_DAYS |-> 4 ]

\* dataform.projectConfig.vars: a compilation variable is not set, or holds
\* a text.
NotSet == [set |-> FALSE]
Text(t) == [set |-> TRUE, text |-> t]

\* The empty text '' among the 'YYYYMMDD' texts.
EmptyText == -1

NoVars ==
  [FORCE_FULL_BACKFILL |-> NotSet,
   BACKFILL_START_DATE |-> NotSet,
   BACKFILL_END_DATE |-> NotSet]

\* The configuration object of a client that declares nothing.
NoClientConfig == [k \in {} |-> FALSE]

DefaultEnv ==
  [today |-> 0, tableExists |-> TRUE, vars |-> NoVars, clientConfig |-> NoClientConfig]

-----------------------------------------------------------------------------
(* Configuration layers (core_config.js, client_config.js, helper.js) *)

\* `dataform.projectConfig.vars.X || null` over a 'YYYYMMDD' text
DateOrNull(v) == IF v.set /\ v.text # EmptyText THEN v.text ELSE NoDate

\* A plausible slip: any non-empty text switches the backfill on.
coreConfig_Truthy(projectVars) ==
  [DefaultConfig EXCEPT
     !.FORCE_FULL_BACKFILL =
        projectVars.FORCE_FULL_BACKFILL.set /\ projectVars.FORCE_FULL_BACKFILL.text # "",
     !.BACKFILL_START_DATE = DateOrNull(projectVars.BACKFILL_START_DATE),
     !.BACKFILL_END_DATE = DateOrNull(projectVars.BACKFILL_END_DATE)]

\* The exported coreConfig: the file-level values, and the three settings
\* read from the compilation variables.
coreConfig(projectVars) ==
  [DefaultConfig EXCEPT
     !.FORCE_FULL_BACKFILL =
        projectVars.FORCE_FULL_BACKFILL.set /\ projectVars.FORCE_FULL_BACKFILL.text = "true",
     !.BACKFILL_START_DATE = DateOrNull(projectVars.BACKFILL_START_DATE),
     !.BACKFILL_END_DATE = DateOrNull(projectVars.BACKFILL_END_DATE)]

\* `{ ...coreConfig }`
getConfig(projectVars) == coreConfig(projectVars)

\* A plausible slip: the earlier layer wins.
Spread_FirstWins(a, b) ==
  [k \in DOMAIN a \cup DOMAIN b |-> IF k \in DOMAIN a THEN a[k] ELSE b[k]]

\* `{ ...a, ...b }`: every setting of b, and the settings of a that b lacks.
Spread(a, b) ==
  [k \in DOMAIN a \cup DOMAIN b |-> IF k \in DOMAIN b THEN b[k] ELSE a[k]]

\* The effective configuration: the client layer over the framework layer.
resolve(projectVars, clientConfig) == Spread(getConfig(projectVars), clientConfig)


-----------------------------------------------------------------------------
(* Property & stream configuration helpers (helper.js) *)

isAdvancedMode == ~config.PROPERTIES_CONFIG.isNull

\* A plausible slip: only the streams marked `include: true` are kept.
IncludedOf_OnlyMarked(property) ==
  LET kept == SelectSeq(property.streams, LAMBDA s : s.include = "true")
  IN  [i \in 1..Len(kept) |->
         [ property_name |-> property.property_name,
           stream_id |-> kept[i].stream_id,
           stream_type |-> kept[i].stream_type,
           source_dataset |-> property.source_dataset,
           use_fresh_daily |->
             IF kept[i].use_fresh_daily # undefined
               THEN kept[i].use_fresh_daily
               ELSE IF config.USE_FRESH_DAILY THEN "true" ELSE "false" ] ]

\* The streams of a property that are not marked `include: false`.
IncludedOf(property) ==
  LET kept == SelectSeq(property.streams, LAMBDA s : s.include # "false")
  IN  [i \in 1..Len(kept) |->
         [ property_name |-> property.property_name,
           stream_id |-> kept[i].stream_id,
           stream_type |-> kept[i].stream_type,
           source_dataset |-> property.source_dataset,
           use_fresh_daily |->
             IF kept[i].use_fresh_daily # undefined
               THEN kept[i].use_fresh_daily
               ELSE IF config.USE_FRESH_DAILY THEN "true" ELSE "false" ] ]

RECURSIVE IncludedOfAll(_)
IncludedOfAll(properties) ==
  IF properties = <<>> THEN <<>>
  ELSE IncludedOf(Head(properties)) \o IncludedOfAll(Tail(properties))

getIncludedStreams ==
  IF ~isAdvancedMode
    THEN << [ simple_mode |-> TRUE,
              stream_type |-> config.DATA_STREAM_TYPE,
              use_fresh_daily |-> IF config.USE_FRESH_DAILY THEN "true" ELSE "false" ] >>
    ELSE IncludedOfAll(config.PROPERTIES_CONFIG.properties)

\* A plausible slip: the excluded streams are counted too.
getEffectiveDataStreamType_AllStreams ==
  IF ~isAdvancedMode THEN config.DATA_STREAM_TYPE
  ELSE LET props == config.PROPERTIES_CONFIG.properties
           hasType(t) == \E i \in 1..Len(props) :
                           \E j \in 1..Len(props[i].streams) :
                             props[i].streams[j].stream_type = t
       IN  IF hasType("web") /\ hasType("app") THEN "both"
           ELSE IF hasType("web") THEN "web"
           ELSE IF hasType("app") THEN "app"
           ELSE "both"

getEffectiveDataStreamType ==
  IF ~isAdvancedMode THEN config.DATA_STREAM_TYPE
  ELSE LET streams == getIncludedStreams
           hasWeb == \E i \in 1..Len(streams) : streams[i].stream_type = "web"
           hasApp == \E i \in 1..Len(streams) : streams[i].stream_type = "app"
       IN  IF hasWeb /\ hasApp THEN "both"
           ELSE IF hasWeb THEN "web"
           ELSE IF hasApp THEN "app"
           ELSE "both"

\* A plausible slip: the raw flag, whatever the effective stream type.
shouldConsolidateParams_RawFlag == config.CONSOLIDATE_WEB_APP_PARAMS

shouldConsolidateParams ==
  LET effectiveType == getEffectiveDataStreamType
  IN  effectiveType = "both" /\ config.CONSOLIDATE_WEB_APP_PARAMS

\* The field references of the session aggregations.
ScreenFieldRefs(location, path, referrer, key, title) ==
  [location |-> location, path |-> path, referrer |-> referrer,
   key |-> key, title |-> title]

getScreenFieldRefs ==
  LET effectiveType == getEffectiveDataStreamType
      consolidate == shouldConsolidateParams
  IN  IF effectiveType = "web"
        THEN ScreenFieldRefs("page.page_location", "page.page_path",
                             "page.page_referrer", "page.page_key", "page.page_title")
      ELSE IF effectiveType = "app"
        THEN ScreenFieldRefs("app.firebase_screen", "app.firebase_screen",
                             "CAST(NULL AS STRING)", "app.screen_key",
                             "app.firebase_screen_class")
      ELSE IF consolidate
        THEN ScreenFieldRefs("page.screen_location", "page.page_path",
                             "page.screen_referrer", "page.screen_key",
                             "page.screen_title")
        ELSE ScreenFieldRefs("COALESCE(page.page_location, app.firebase_screen)",
                             "COALESCE(page.page_path, app.firebase_screen)",
                             "page.page_referrer",
                             "COALESCE(page.page_key, app.screen_key)",
                             "COALESCE(page.page_title, app.firebase_screen_class)")

\* A plausible slip: the raw flag looked at before the stream type.
getPageSessionKeyRef_FlagFirst ==
  LET effectiveType == getEffectiveDataStreamType
  IN  IF config.CONSOLIDATE_WEB_APP_PARAMS THEN "screen_session_key"
      ELSE IF effectiveType = "web" THEN "page_session_key"
      ELSE IF effectiveType = "app" THEN "screen_session_key"
      ELSE "COALESCE(page_session_key, screen_session_key)"

getPageSessionKeyRef ==
  LET effectiveType == getEffectiveDataStreamType
      consolidate == shouldConsolidateParams
  IN  IF effectiveType = "web" THEN "page_session_key"
      ELSE IF effectiveType = "app" THEN "screen_session_key"
      ELSE IF consolidate THEN "screen_session_key"
      ELSE "COALESCE(page_session_key, screen_session_key)"

-----------------------------------------------------------------------------
(* Parameter consolidation (sql_generators.js) *)

\* consolidationMap[name] = { web: null, app: null } when the key is new.
MapEnsure(map, key) ==
  IF \E i \in 1..Len(map) : map[i].key = key
    THEN map
    ELSE Append(map, [key |-> key, web |-> null, app |-> null])

\* consolidationMap[param.consolidated_name].web = param.name (or .app)
MapPut(map, key, side, name) ==
  LET m == MapEnsure(map, key)
  IN  [i \in 1..Len(m) |->
         IF m[i].key = key
           THEN IF side = "web" THEN [m[i] EXCEPT !.web = name]
                                ELSE [m[i] EXCEPT !.app = name]
           ELSE m[i]]

\* array.forEach(param => { if (param.consolidated_name) { ... } })
RECURSIVE MapPutAll(_, _, _)
MapPutAll(map, params, side) ==
  IF params = <<>> THEN map
  ELSE LET param == Head(params)
       IN  MapPutAll(IF Truthy(param.consolidated_name)
                       THEN MapPut(map, param.consolidated_name, side, param.name)
                       ELSE map,
                     Tail(params), side)

\* A plausible slip: the app-side field ahead of the web-side field.
ConsolidationSources_AppFirst(sources) ==
  (IF Truthy(sources.app) THEN <<sources.app>> ELSE <<>>)
  \o (IF Truthy(sources.web) THEN <<sources.web>> ELSE <<>>)

\* if (sources.web) fields.push(sources.web); if (sources.app) fields.push(sources.app);
ConsolidationSources(sources) ==
  (IF Truthy(sources.web) THEN <<sources.web>> ELSE <<>>)
  \o (IF Truthy(sources.app) THEN <<sources.app>> ELSE <<>>)

\* `COALESCE(${fields.join(', ')}) AS ${consolidatedName}`
ConsolidatedField(sources) ==
  [expr |-> "COALESCE", args |-> ConsolidationSources(sources), alias |-> sources.key]

\* The empty string '' is the empty list of expressions.
CONSOLIDATE_PARAMS ==
  LET effectiveType == getEffectiveDataStreamType
  IN  IF effectiveType # "both" \/ ~config.CONSOLIDATE_WEB_APP_PARAMS
        THEN <<>>
        ELSE LET consolidationMap ==
                   MapPutAll(MapPutAll(<<>>, config.WEB_PARAMS_ARRAY, "web"),
                             config.APP_PARAMS_ARRAY, "app")
             IN  Map(ConsolidatedField, consolidationMap)

-----------------------------------------------------------------------------
(* Event key generation (sql_generators.js) *)

KeyField(expr, field) == [expr |-> expr, field |-> field]

\* A plausible slip: the cast alone, with no COALESCE around it.
ParamKeyField_NoCoalesce(param) == KeyField("CAST", param.name)

\* `COALESCE(CAST(${param.name} AS STRING), '')`
ParamKeyField(param) == KeyField("COALESCE_CAST", param.name)

\* `COALESCE(${name}, '')`
ConsolidatedKeyField(name) == KeyField("COALESCE", name)

\* The literal '-' between two components
Separator == KeyField("LITERAL", "-")

BaseKeyFields ==
  << KeyField("COALESCE", "user_id"),
     KeyField("COALESCE_CAST", "ga_session_id"),
     KeyField("CAST", "event_timestamp"),
     KeyField("BARE", "event_name"),
     KeyField("COALESCE_CAST", "event_server_timestamp_offset"),
     KeyField("COALESCE_CAST", "batch_event_index"),
     KeyField("COALESCE_CAST", "event_bundle_sequence_id") >>

\* A plausible slip: the collection stops at the first name found.
ConsolidatedNamesOf_FirstOnly(params) ==
  LET declared == SelectSeq(params, LAMBDA p : Truthy(p.consolidated_name))
  IN  IF declared = <<>> THEN <<>> ELSE <<declared[1].consolidated_name>>

ConsolidatedNamesOf(params) ==
  Map(LAMBDA p : p.consolidated_name,
      SelectSeq(params, LAMBDA p : Truthy(p.consolidated_name)))

\* A plausible slip: the declared stream type where the effective one is meant.
WebAppKeyFields_DeclaredType ==
  LET effectiveType == config.DATA_STREAM_TYPE
  IN  IF effectiveType = "both" /\ config.CONSOLIDATE_WEB_APP_PARAMS
        THEN LET consolidatedNames ==
                   SetAddAll(SetAddAll(<<>>, ConsolidatedNamesOf(config.WEB_PARAMS_ARRAY)),
                             ConsolidatedNamesOf(config.APP_PARAMS_ARRAY))
                 appOnly ==
                   SelectSeq(config.APP_PARAMS_ARRAY,
                             LAMBDA p : ~Truthy(p.consolidated_name))
             IN  Map(ParamKeyField, appOnly) \o Map(ConsolidatedKeyField, consolidatedNames)
        ELSE (IF effectiveType \in {"web", "both"}
                THEN Map(ParamKeyField, config.WEB_PARAMS_ARRAY) ELSE <<>>)
             \o (IF effectiveType \in {"app", "both"}
                   THEN Map(ParamKeyField, config.APP_PARAMS_ARRAY) ELSE <<>>)

\* The web/app part of the key.
WebAppKeyFields ==
  LET effectiveType == getEffectiveDataStreamType
  IN  IF effectiveType = "both" /\ config.CONSOLIDATE_WEB_APP_PARAMS
        THEN LET consolidatedNames ==
                   SetAddAll(SetAddAll(<<>>, ConsolidatedNamesOf(config.WEB_PARAMS_ARRAY)),
                             ConsolidatedNamesOf(config.APP_PARAMS_ARRAY))
                 appOnly ==
                   SelectSeq(config.APP_PARAMS_ARRAY,
                             LAMBDA p : ~Truthy(p.consolidated_name))
             IN  Map(ParamKeyField, appOnly) \o Map(ConsolidatedKeyField, consolidatedNames)
        ELSE (IF effectiveType \in {"web", "both"}
                THEN Map(ParamKeyField, config.WEB_PARAMS_ARRAY) ELSE <<>>)
             \o (IF effectiveType \in {"app", "both"}
                   THEN Map(ParamKeyField, config.APP_PARAMS_ARRAY) ELSE <<>>)

\* A plausible slip: the custom parameters pushed ahead of the core ones.
KeyFields_CustomFirst ==
  BaseKeyFields
  \o Map(ParamKeyField, config.CUSTOM_PARAMS_ARRAY)
  \o WebAppKeyFields
  \o Map(ParamKeyField, config.CORE_PARAMS_ARRAY)

\* The `fields` array before it is joined.
KeyFields ==
  BaseKeyFields
  \o Map(ParamKeyField, config.CORE_PARAMS_ARRAY)
  \o WebAppKeyFields
  \o Map(ParamKeyField, config.CUSTOM_PARAMS_ARRAY)

\* fields.join(", '-', "): the argument list of the CONCAT(...)
JoinWithSeparator(fields) ==
  [i \in 1..(IF fields = <<>> THEN 0 ELSE 2 * Len(fields) - 1) |->
     IF i % 2 = 1 THEN fields[(i + 1) \div 2] ELSE Separator]

GENERATE_EVENT_KEY_CONCAT == JoinWithSeparator(KeyFields)

-----------------------------------------------------------------------------
(* Parameter extraction (helper.js, sql_generators.js) *)

\* What a call produced: a returned value, or a thrown Error and no value.
Returned(v) == [threw |-> FALSE, error |-> null, value |-> v]
\* new Error(message): the error's name is that of the built-in class.
Thrown(message) ==
  [threw |-> TRUE, error |-> [name |-> "Error", message |-> message], value |-> <<>>]

\* String.prototype.toLowerCase over the type names that Init draws
ToLowerCase(s) ==
  CASE s = "STRING" -> "string"
    [] s = "Double" -> "double"
    [] OTHER -> s

\* A plausible slip: float and double read from the integer slot.
ValueField_FloatAsInt(type) ==
  CASE type = "string" -> "string_value"
    [] type \in {"int", "integer", "float", "double"} -> "int_value"
    [] OTHER -> undefined

\* The switch over the lower-cased type; `undefined` stands for the default arm.
ValueField(type) ==
  CASE type = "string" -> "string_value"
    [] type \in {"int", "integer"} -> "int_value"
    [] type \in {"float", "double"} -> "double_value"
    [] OTHER -> undefined

\* `(SELECT value.${valueField} FROM UNNEST(${sourceArray}) WHERE key = '${param.name}') AS ${param.name}`
FieldExpression(valueField, sourceArray, param) ==
  [select |-> valueField, unnest |-> sourceArray, key |-> param.name, alias |-> param.name]

\* A plausible slip: a message that leaves the parameter out.
UnsupportedMessage_NoName(kind, param) ==
  CASE kind = "property" -> <<"Unsupported property type: ", param.type>>
    [] kind = "item" -> <<"Unsupported item parameter type: ", param.type>>
    [] OTHER -> <<"Unsupported parameter type: ", param.type>>

\* `Unsupported parameter type: ${param.type} for parameter: ${param.name}`
\* and its two variants, as the pieces of the template literal.
UnsupportedMessage(kind, param) ==
  CASE kind = "property" ->
         <<"Unsupported property type: ", param.type, " for property: ", param.name>>
    [] kind = "item" ->
         <<"Unsupported item parameter type: ", param.type, " for parameter: ", param.name>>
    [] OTHER ->
         <<"Unsupported parameter type: ", param.type, " for parameter: ", param.name>>

\* A plausible slip: the expressions built so far escape with the error.
OnUnsupported_Partial(kind, param, built) ==
  [Thrown(UnsupportedMessage(kind, param)) EXCEPT !.value = built]

\* throw new Error(...): the callback's array under construction is lost.
OnUnsupported(kind, param, built) == Thrown(UnsupportedMessage(kind, param))

\* A plausible slip: the new expression put in front of the earlier ones.
Collect_Reversed(built, expression) == <<expression>> \o built

\* map() appends the callback's result to the array it is building.
Collect(built, expression) == Append(built, expression)

\* paramsArray.map(param => { switch ... }).join(...), from index i on.
RECURSIVE MapParams(_, _, _, _, _)
MapParams(paramsArray, sourceArray, kind, i, built) ==
  IF i > Len(paramsArray) THEN Returned(built)
  ELSE LET param == paramsArray[i]
           valueField == ValueField(ToLowerCase(param.type))
       IN  IF valueField = undefined
             THEN OnUnsupported(kind, param, built)
             ELSE MapParams(paramsArray, sourceArray, kind, i + 1,
                            Collect(built, FieldExpression(valueField, sourceArray, param)))

extractParamsSQL(paramsArray, sourceArray) ==
  MapParams(paramsArray, sourceArray, "parameter", 1, <<>>)

EXTRACT_EVENT_PARAMS(sourceArray) ==
  IF Len(config.CORE_PARAMS_ARRAY) = 0 THEN Returned(<<>>)
  ELSE extractParamsSQL(config.CORE_PARAMS_ARRAY, sourceArray)

EXTRACT_WEB_PARAMS(sourceArray) ==
  IF Len(config.WEB_PARAMS_ARRAY) = 0 THEN Returned(<<>>)
  ELSE extractParamsSQL(config.WEB_PARAMS_ARRAY, sourceArray)

EXTRACT_APP_PARAMS(sourceArray) ==
  IF Len(config.APP_PARAMS_ARRAY) = 0 THEN Returned(<<>>)
  ELSE extractParamsSQL(config.APP_PARAMS_ARRAY, sourceArray)

EXTRACT_CUSTOM_PARAMS(sourceArray) ==
  IF Len(config.CUSTOM_PARAMS_ARRAY) = 0 THEN Returned(<<>>)
  ELSE extractParamsSQL(config.CUSTOM_PARAMS_ARRAY, sourceArray)

EXTRACT_USER_PROPS(sourceArray) ==
  IF Len(config.CORE_USER_PROPS_ARRAY) = 0 THEN Returned(<<>>)
  ELSE MapParams(config.CORE_USER_PROPS_ARRAY, sourceArray, "property", 1, <<>>)

generateItemParamsSQL(paramsConfig, sourceArray) ==
  MapParams(paramsConfig, sourceArray, "item", 1, <<>>)

\* The value is the list of expressions of the item_params_custom STRUCT
\* (empty when the STRUCT is left out); the fixed item columns are not modelled.
EXTRACT_ITEMS_ARRAY ==
  LET hasCustomParams == Len(config.CUSTOM_ITEMS_PARAMS) > 0
  IN  IF hasCustomParams
        THEN generateItemParamsSQL(config.CUSTOM_ITEMS_PARAMS, "items.item_params")
        ELSE Returned(<<>>)

-----------------------------------------------------------------------------
(* Stream filter (helper.js) *)

\* The SQL predicate on stream_id: '1=1', '1=0', `stream_id = 'id'` or
\* `stream_id IN ('id', ...)`.
StreamPredicate(sql, ids) == [sql |-> sql, ids |-> ids]

\* Which stream ids a predicate accepts.
Accepts(predicate, streamId) ==
  CASE predicate.sql = "1=1" -> TRUE
    [] predicate.sql = "1=0" -> FALSE
    [] predicate.sql = "stream_id =" -> streamId = predicate.ids[1]
    [] predicate.sql = "stream_id IN" -> streamId \in Range(predicate.ids)

\* Names every object literal inherits from Object.prototype: looked up in
\* PROPERTIES_CONFIG they yield a function, which has no `streams`.
ObjectPrototypeNames == {"toString", "constructor"}

\* `Property ${propertyName} not found in PROPERTIES_CONFIG`
NotFoundMessage(propertyName) ==
  <<"Property ", propertyName, " not found in PROPERTIES_CONFIG">>

\* Object.keys(undefined)
KeysOfUndefined ==
  [Thrown(<<"Cannot convert undefined or null to object">>)
     EXCEPT !.error.name = "TypeError"]

\* A plausible slip: the include marker is not looked at.
IncludedStreamIds_All(property) ==
  [i \in 1..Len(property.streams) |-> property.streams[i].stream_id]

\* The ids of the streams of a property that are not marked `include: false`.
IncludedStreamIds(property) ==
  LET kept == SelectSeq(property.streams, LAMBDA s : s.include # "false")
  IN  [i \in 1..Len(kept) |-> kept[i].stream_id]

\* A plausible slip: no case for a property without included stream.
generateStreamFilter_NoEmptyCase(propertyName) ==
  IF ~isAdvancedMode THEN Returned(StreamPredicate("1=1", <<>>))
  ELSE LET props == config.PROPERTIES_CONFIG.properties
           own == {i \in 1..Len(props) : props[i].property_name = propertyName}
       IN  IF own = {}
             THEN IF propertyName \in ObjectPrototypeNames
                    THEN KeysOfUndefined
                    ELSE Thrown(NotFoundMessage(propertyName))
             ELSE LET includedStreamIds == IncludedStreamIds(props[CHOOSE i \in own : TRUE])
                  IN  IF Len(includedStreamIds) = 1
                        THEN Returned(StreamPredicate("stream_id =", includedStreamIds))
                        ELSE Returned(StreamPredicate("stream_id IN", includedStreamIds))

generateStreamFilter(propertyName) ==
  IF ~isAdvancedMode THEN Returned(StreamPredicate("1=1", <<>>))
  ELSE LET props == config.PROPERTIES_CONFIG.properties
           own == {i \in 1..Len(props) : props[i].property_name = propertyName}
       IN  IF own = {}
             THEN IF propertyName \in ObjectPrototypeNames
                    THEN KeysOfUndefined
                    ELSE Thrown(NotFoundMessage(propertyName))
             ELSE LET includedStreamIds == IncludedStreamIds(props[CHOOSE i \in own : TRUE])
                  IN  IF Len(includedStreamIds) = 0
                        THEN Returned(StreamPredicate("1=0", <<>>))
                      ELSE IF Len(includedStreamIds) = 1
                        THEN Returned(StreamPredicate("stream_id =", includedStreamIds))
                      ELSE Returned(StreamPredicate("stream_id IN", includedStreamIds))

-----------------------------------------------------------------------------
(* Dates: BigQuery DATE values are day numbers (days since 1970-01-01);   *)
(* table suffixes and configured dates are 'YYYYMMDD' texts, modelled by  *)
(* the number they spell.                                                 *)

IsLeapYear(y) == ((y % 4) = 0 /\ (y % 100) # 0) \/ (y % 400) = 0

DaysInMonth(y, m) ==
  CASE m = 2 -> IF IsLeapYear(y) THEN 29 ELSE 28
    [] m \in {4, 6, 9, 11} -> 30
    [] OTHER -> 31

\* The day number of the civil date y-m-d (proleptic Gregorian calendar).
DaysFromCivil(y, m, d) ==
  LET yy == IF m <= 2 THEN y - 1 ELSE y
      era == yy \div 400
      yoe == yy - era * 400
      mp == IF m > 2 THEN m - 3 ELSE m + 9
      doy == (153 * mp + 2) \div 5 + d - 1
      doe == yoe * 365 + yoe \div 4 - yoe \div 100 + doy
  IN  era * 146097 + doe - 719468

\* The civil date of a day number.
CivilFromDays(z) ==
  LET zz == z + 719468
      era == zz \div 146097
      doe == zz - era * 146097
      yoe == (doe - doe \div 1460 + doe \div 36524 - doe \div 146096) \div 365
      doy == doe - (365 * yoe + yoe \div 4 - yoe \div 100)
      mp == (5 * doy + 2) \div 153
      d == doy - (153 * mp + 2) \div 5 + 1
      m == IF mp < 10 THEN mp + 3 ELSE mp - 9
      y == yoe + era * 400
  IN  [y |-> IF m <= 2 THEN y + 1 ELSE y, m |-> m, d |-> d]

\* PARSE_DATE('%Y%m%d', text) and FORMAT_DATE('%Y%m%d', date)
PARSE_DATE(text) ==
  DaysFromCivil(text \div 10000, (text \div 100) % 100, text % 100)
FORMAT_DATE(date) ==
  LET c == CivilFromDays(date) IN c.y * 10000 + c.m * 100 + c.d

\* DATE_SUB(date, INTERVAL n DAY | MONTH); a month step keeps the day of the
\* month, or takes the last day of a shorter month.
DATE_SUB(date, n, part) ==
  IF part = "DAY" THEN date - n
  ELSE LET c == CivilFromDays(date)
           months == c.y * 12 + (c.m - 1) - n
           y == months \div 12
           m == (months % 12) + 1
           last == DaysInMonth(y, m)
       IN  DaysFromCivil(y, m, IF c.d > last THEN last ELSE c.d)

\* A date in generated SQL: a configured 'YYYYMMDD' literal, or
\* FORMAT_DATE('%Y%m%d', DATE_SUB(CURRENT_DATE(), INTERVAL n part)).
DateLiteral(text) == [sql |-> "LITERAL", text |-> text, n |-> 0, part |-> "DAY"]
DateSubCurrent(n, part) == [sql |-> "FORMAT_DATE_SUB", text |-> 0, n |-> n, part |-> part]

\* The 'YYYYMMDD' text BigQuery computes from such an expression on CURRENT_DATE() = today
EvalDate(expression, today) ==
  IF expression.sql = "LITERAL" THEN expression.text
  ELSE FORMAT_DATE(DATE_SUB(today, expression.n, expression.part))

-----------------------------------------------------------------------------
(* Source tables and backfill dates (helper.js) *)

\* A plausible slip: the fresh table whatever the flag.
GET_FRESH_SOURCE_TABLE_Always(useFreshDaily) == "events_fresh_daily_*"

GET_FRESH_SOURCE_TABLE(useFreshDaily) ==
  IF useFreshDaily THEN "events_fresh_daily_*" ELSE "events_*"

\* A plausible slip: the fresh table where the finalized one is meant.
GET_FINALIZED_SOURCE_TABLE_Fresh == "events_fresh_daily_*"

GET_FINALIZED_SOURCE_TABLE == "events_*"

\* A plausible slip: the default start only when the end is defaulted too.
GET_BACKFILL_START_DATE_Coupled ==
  IF config.BACKFILL_START_DATE # NoDate
    THEN DateLiteral(config.BACKFILL_START_DATE)
    ELSE IF config.BACKFILL_END_DATE # NoDate
           THEN DateLiteral(config.BACKFILL_END_DATE)
           ELSE DateSubCurrent(13, "MONTH")

GET_BACKFILL_START_DATE ==
  IF config.BACKFILL_START_DATE # NoDate
    THEN DateLiteral(config.BACKFILL_START_DATE)
    ELSE DateSubCurrent(13, "MONTH")

GET_BACKFILL_END_DATE ==
  IF config.BACKFILL_END_DATE # NoDate
    THEN DateLiteral(config.BACKFILL_END_DATE)
    ELSE DateSubCurrent(1, "DAY")

-----------------------------------------------------------------------------
(* Partition filters (helper.js).  A filter is the list of the conditions *)
(* on _TABLE_SUFFIX that it joins with AND.                               *)

Condition(op, pattern, date) == [op |-> op, pattern |-> pattern, date |-> date]

\* A plausible slip: the pattern without its wildcard.
EXCLUDE_INTRADAY_TABLES_NoWildcard == Condition("NOT LIKE", "intraday", DateLiteral(NoDate))

\* `_TABLE_SUFFIX NOT LIKE 'intraday%'`
EXCLUDE_INTRADAY_TABLES == Condition("NOT LIKE", "intraday%", DateLiteral(NoDate))

\* `_TABLE_SUFFIX = FORMAT_DATE('%Y%m%d', DATE_SUB(CURRENT_DATE(), INTERVAL n DAY))`
SuffixOfDaysAgo(n) == Condition("=", "", DateSubCurrent(n, "DAY"))

GET_FRESH_LOAD_DATE_FILTER(useFreshDaily) ==
  LET yesterdayFilter == SuffixOfDaysAgo(1)
  IN  IF useFreshDaily THEN <<yesterdayFilter>>
      ELSE <<EXCLUDE_INTRADAY_TABLES, yesterdayFilter>>

GET_RECONCILIATION_DATE_FILTER ==
  LET lookbackDays == config.RECONCILIATION_LOOKBACK_DAYS
      excludeIntraday == EXCLUDE_INTRADAY_TABLES
      reconciliationFilter == SuffixOfDaysAgo(lookbackDays)
  IN  <<excludeIntraday, reconciliationFilter>>

\* The filter of a backfill read: the suffix between the two backfill dates,
\* intraday shards excluded.
BACKFILL_DATE_FILTER ==
  << Condition(">=", "", GET_BACKFILL_START_DATE),
     Condition("<=", "", GET_BACKFILL_END_DATE),
     EXCLUDE_INTRADAY_TABLES >>

\* The suffix of a shard of the wildcard table events_*: 'YYYYMMDD' for the
\* daily shard events_YYYYMMDD, 'intraday_YYYYMMDD' for events_intraday_YYYYMMDD.
Suffix(label, date) == [label |-> label, date |-> date]

\* suffix LIKE pattern: a pattern ending in % matches the suffixes that start
\* with what precedes it, a pattern without wildcard only the suffix equal to it.
Like(suffix, pattern) ==
  CASE pattern = "intraday%" -> suffix.label = "intraday_"
    [] pattern = "%" -> TRUE
    [] OTHER -> FALSE

\* Whether a shard suffix satisfies a condition when CURRENT_DATE() = today.
\* Texts compare as strings: a suffix that starts with a letter is greater
\* than every 'YYYYMMDD' text.
Holds(condition, suffix, today) ==
  LET text == EvalDate(condition.date, today)
  IN  CASE condition.op = "NOT LIKE" -> ~Like(suffix, condition.pattern)
        [] condition.op = "=" -> suffix.label = "" /\ suffix.date = text
        [] condition.op = ">=" -> suffix.label # "" \/ suffix.date >= text
        [] condition.op = "<=" -> suffix.label = "" /\ suffix.date <= text

Selects(filter, suffix, today) ==
  \A i \in 1..Len(filter) : Holds(filter[i], suffix, today)

-----------------------------------------------------------------------------
(* The refresh window planner.  The incremental date logic of base_events *)
(* is described here as the plan of days it reads and the source of each. *)

SourceKind(table) == IF table = "events_fresh_daily_*" THEN "fresh" ELSE "finalized"

PlanEntry(date, table) ==
  [calendar_day |-> FORMAT_DATE(date), in_scope |-> TRUE, source_kind |-> SourceKind(table)]

ConfigurationError(message) ==
  [threw |-> TRUE, error |-> [name |-> "ConfigurationError", message |-> message],
   value |-> <<>>]

\* Every day from start to end, read from the finalized table.
BackfillPlan(start, end) ==
  [i \in 1..(end - start + 1) |-> PlanEntry(start + i - 1, GET_FINALIZED_SOURCE_TABLE)]

\* The n most recent days; the most recent one is read from the finalized
\* table, the others from the table the fresh flag selects.
WindowPlan(today, n, useFreshDaily) ==
  [i \in 1..n |->
     PlanEntry(today - n + i,
               IF i = n THEN GET_FINALIZED_SOURCE_TABLE
                        ELSE GET_FRESH_SOURCE_TABLE(useFreshDaily))]

\* A plausible slip: a missing table decides before the backfill flag does.
plan_InitialLoadFirst(today, rollingWindowDays, useFreshDaily, backfill, initialLoad) ==
  IF initialLoad
    THEN Returned(WindowPlan(today, config.INITIAL_LOAD_DAYS, useFreshDaily))
    ELSE IF backfill.active
      THEN Returned(BackfillPlan(PARSE_DATE(backfill.start), PARSE_DATE(backfill.end)))
      ELSE Returned(WindowPlan(today, rollingWindowDays, useFreshDaily))

\* A plausible slip: the initial load sized by the rolling window.
plan_InitialLoadRolling(today, rollingWindowDays, useFreshDaily, backfill, initialLoad) ==
  IF backfill.active
    THEN Returned(BackfillPlan(PARSE_DATE(backfill.start), PARSE_DATE(backfill.end)))
    ELSE Returned(WindowPlan(today, rollingWindowDays, useFreshDaily))

\* A plausible slip: no check of the window; an empty window plans nothing.
plan_Unchecked(today, rollingWindowDays, useFreshDaily, backfill, initialLoad) ==
  IF backfill.active
    THEN Returned(BackfillPlan(PARSE_DATE(backfill.start), PARSE_DATE(backfill.end)))
    ELSE Returned(WindowPlan(today,
                             IF initialLoad THEN config.INITIAL_LOAD_DAYS
                                            ELSE rollingWindowDays,
                             useFreshDaily))

plan(today, rollingWindowDays, useFreshDaily, backfill, initialLoad) ==
  IF backfill.active
    THEN LET start == PARSE_DATE(backfill.start)
             end == PARSE_DATE(backfill.end)
         IN  IF start > end
               THEN ConfigurationError(<<"backfillStart ", backfill.start,
                                         " is after backfillEnd ", backfill.end>>)
               ELSE Returned(BackfillPlan(start, end))
    ELSE LET n == IF initialLoad THEN config.INITIAL_LOAD_DAYS ELSE rollingWindowDays
         IN  IF n <= 0
               THEN ConfigurationError(<<"window of ", n, " days">>)
               ELSE Returned(WindowPlan(today, n, useFreshDaily))

-----------------------------------------------------------------------------
(* What BigQuery computes from the generated key expression *)

\* A SQL STRING value: NULL, or a string of characters.
SqlNull == [isNull |-> TRUE, str |-> <<>>]
SqlString(s) == [isNull |-> FALSE, str |-> s]

\* One argument of the CONCAT over an event row (column name -> value).
EvalKeyArg(arg, row) ==
  CASE arg.expr = "LITERAL" -> SqlString(<<arg.field>>)
    [] arg.expr \in {"BARE", "CAST"} -> row[arg.field]
    [] arg.expr \in {"COALESCE", "COALESCE_CAST"} ->
         IF row[arg.field].isNull THEN SqlString(<<>>) ELSE row[arg.field]

RECURSIVE Flatten(_)
Flatten(ss) == IF ss = <<>> THEN <<>> ELSE Head(ss) \o Flatten(Tail(ss))

\* CONCAT(a, b, ...): NULL as soon as one argument is NULL.
SqlConcat(args, row) ==
  LET vals == [i \in 1..Len(args) |-> EvalKeyArg(args[i], row)]
  IN  IF \E i \in 1..Len(vals) : vals[i].isNull
        THEN SqlNull
        ELSE SqlString(Flatten([i \in 1..Len(vals) |-> vals[i].str]))

-----------------------------------------------------------------------------
(* Specification of the configuration-driven generators *)

\* Simple mode: every stream type and flag, over every drawn catalog.
InitCatalogs ==
  \E web \in Catalogs(WebNames, MaxCatalogLen),
     app \in Catalogs(AppNames, MaxCatalogLen),
     k \in {0, 2},
     t \in DataStreamTypes, flag \in BOOLEAN :
    config = [DefaultConfig EXCEPT
                !.DATA_STREAM_TYPE = t,
                !.CONSOLIDATE_WEB_APP_PARAMS = flag,
                !.CORE_PARAMS_ARRAY = PlainCatalog(CoreNames, k),
                !.WEB_PARAMS_ARRAY = web,
                !.APP_PARAMS_ARRAY = app,
                !.CUSTOM_PARAMS_ARRAY = PlainCatalog(CustomNames, 2 - k)]

\* Advanced mode: every drawn PROPERTIES_CONFIG, over the default catalog.
InitProperties ==
  \E ps \in PropertiesConfigs, t \in DataStreamTypes, flag \in BOOLEAN :
    config = [DefaultConfig EXCEPT
                !.PROPERTIES_CONFIG = Properties(ps),
                !.DATA_STREAM_TYPE = t,
                !.CONSOLIDATE_WEB_APP_PARAMS = flag]

Init ==
  /\ InitCatalogs \/ InitProperties
  /\ env = DefaultEnv
  /\ call = "load"
  /\ arguments = <<>>
  /\ ret = <<>>

CallGetEffectiveDataStreamType ==
  /\ call' = "getEffectiveDataStreamType"
  /\ arguments' = <<>>
  /\ ret' = getEffectiveDataStreamType
  /\ UNCHANGED <<config, env>>

CallShouldConsolidateParams ==
  /\ call' = "shouldConsolidateParams"
  /\ arguments' = <<>>
  /\ ret' = shouldConsolidateParams
  /\ UNCHANGED <<config, env>>

CallConsolidateParams ==
  /\ call' = "CONSOLIDATE_PARAMS"
  /\ arguments' = <<>>
  /\ ret' = CONSOLIDATE_PARAMS
  /\ UNCHANGED <<config, env>>

CallGenerateEventKeyConcat ==
  /\ call' = "GENERATE_EVENT_KEY_CONCAT"
  /\ arguments' = <<>>
  /\ ret' = GENERATE_EVENT_KEY_CONCAT
  /\ UNCHANGED <<config, env>>

CallGetScreenFieldRefs ==
  /\ call' = "getScreenFieldRefs"
  /\ arguments' = <<>>
  /\ ret' = getScreenFieldRefs
  /\ UNCHANGED <<config, env>>

CallGetPageSessionKeyRef ==
  /\ call' = "getPageSessionKeyRef"
  /\ arguments' = <<>>
  /\ ret' = getPageSessionKeyRef
  /\ UNCHANGED <<config, env>>

Next ==
  \/ CallGetEffectiveDataStreamType
  \/ CallShouldConsolidateParams
  \/ CallConsolidateParams
  \/ CallGenerateEventKeyConcat
  \/ CallGetScreenFieldRefs
  \/ CallGetPageSessionKeyRef

Spec == Init /\ [][Next]_vars

-----------------------------------------------------------------------------
(* Specification of the extraction functions *)

\* Declared types: the supported ones, two that differ from them in case
\* only, and an unsupported one.
ParamTypes == {"string", "int", "integer", "float", "double", "STRING", "Double", "currency"}
ExtractNames == {"form_name", "percent_scrolled"}
SourceArrays == {"event_params", "user_properties"}

\* The configuration arrays the extraction functions read.
ParamArrayKeys ==
  { "CORE_PARAMS_ARRAY", "WEB_PARAMS_ARRAY", "APP_PARAMS_ARRAY",
    "CUSTOM_PARAMS_ARRAY", "CORE_USER_PROPS_ARRAY", "CUSTOM_ITEMS_PARAMS" }

\* Parameter arrays of at most n parameters, of any name and declared type.
ParamArrays(n) ==
  UNION { { [i \in 1..k |-> Param(f[i][1], f[i][2], undefined)] :
              f \in [1..k -> ExtractNames \X ParamTypes] } : k \in 0..n }

InitExtract ==
  /\ \E key \in ParamArrayKeys, params \in ParamArrays(MaxParams) :
       config = [DefaultConfig EXCEPT ![key] = params]
  /\ env = DefaultEnv
  /\ call = "load"
  /\ arguments = <<>>
  /\ ret = <<>>

CallExtractEventParams ==
  \E sourceArray \in SourceArrays :
    /\ call' = "EXTRACT_EVENT_PARAMS"
    /\ arguments' = <<sourceArray>>
    /\ ret' = EXTRACT_EVENT_PARAMS(sourceArray)
    /\ UNCHANGED <<config, env>>

CallExtractWebParams ==
  \E sourceArray \in SourceArrays :
    /\ call' = "EXTRACT_WEB_PARAMS"
    /\ arguments' = <<sourceArray>>
    /\ ret' = EXTRACT_WEB_PARAMS(sourceArray)
    /\ UNCHANGED <<config, env>>

CallExtractAppParams ==
  \E sourceArray \in SourceArrays :
    /\ call' = "EXTRACT_APP_PARAMS"
    /\ arguments' = <<sourceArray>>
    /\ ret' = EXTRACT_APP_PARAMS(sourceArray)
    /\ UNCHANGED <<config, env>>

CallExtractCustomParams ==
  \E sourceArray \in SourceArrays :
    /\ call' = "EXTRACT_CUSTOM_PARAMS"
    /\ arguments' = <<sourceArray>>
    /\ ret' = EXTRACT_CUSTOM_PARAMS(sourceArray)
    /\ UNCHANGED <<config, env>>

CallExtractUserProps ==
  \E sourceArray \in SourceArrays :
    /\ call' = "EXTRACT_USER_PROPS"
    /\ arguments' = <<sourceArray>>
    /\ ret' = EXTRACT_USER_PROPS(sourceArray)
    /\ UNCHANGED <<config, env>>

CallExtractItemsArray ==
  /\ call' = "EXTRACT_ITEMS_ARRAY"
  /\ arguments' = <<>>
  /\ ret' = EXTRACT_ITEMS_ARRAY
  /\ UNCHANGED <<config, env>>

NextExtract ==
  \/ CallExtractEventParams
  \/ CallExtractWebParams
  \/ CallExtractAppParams
  \/ CallExtractCustomParams
  \/ CallExtractUserProps
  \/ CallExtractItemsArray

SpecExtract == InitExtract /\ [][NextExtract]_vars

-----------------------------------------------------------------------------
(* Specification of the refresh planner and the date helpers *)

\* Values of CURRENT_DATE(): mid-month, first of a month after February,
\* last of a 31-day month in a leap year, first of a year.
Todays == {PARSE_DATE(t) : t \in {20250310, 20250301, 20240331, 20250101}}
BackfillStarts == {NoDate, 20240101, 20240228, 20250305}
BackfillEnds == {NoDate, 20240103, 20240302, 20240101}
\* INITIAL_LOAD_DAYS: the default and a shorter load
InitialLoadDays == {7, 2}

InitPlan ==
  /\ \E window \in 0..MaxWindow, fresh \in BOOLEAN, force \in BOOLEAN,
        start \in BackfillStarts, end \in BackfillEnds,
        initial \in InitialLoadDays :
       config = [DefaultConfig EXCEPT !.ROLLING_REFRESH_DAYS = window,
                                      !.INITIAL_LOAD_DAYS = initial,
                                      !.USE_FRESH_DAILY = fresh,
                                      !.FORCE_FULL_BACKFILL = force,
                                      !.BACKFILL_START_DATE = start,
                                      !.BACKFILL_END_DATE = end]
  /\ \E today \in Todays, exists \in BOOLEAN :
       env = [today |-> today, tableExists |-> exists]
  /\ call = "load"
  /\ arguments = <<>>
  /\ ret = <<>>

\* The plan of one run: the run reads the configuration and the clock.
CallPlan ==
  LET request ==
        [today |-> env.today,
         rollingWindowDays |-> config.ROLLING_REFRESH_DAYS,
         useFreshDaily |-> config.USE_FRESH_DAILY,
         backfill |-> [active |-> config.FORCE_FULL_BACKFILL,
                       start |-> EvalDate(GET_BACKFILL_START_DATE, env.today),
                       end |-> EvalDate(GET_BACKFILL_END_DATE, env.today)],
         initialLoad |-> ~env.tableExists]
  IN  /\ call' = "plan"
      /\ arguments' = request
      /\ ret' = plan(request.today, request.rollingWindowDays, request.useFreshDaily,
                     request.backfill, request.initialLoad)
      /\ UNCHANGED <<config, env>>

CallGetFreshSourceTable ==
  \E useFreshDaily \in {config.USE_FRESH_DAILY, TRUE, FALSE} :
    /\ call' = "GET_FRESH_SOURCE_TABLE"
    /\ arguments' = <<useFreshDaily>>
    /\ ret' = Returned(GET_FRESH_SOURCE_TABLE(useFreshDaily))
    /\ UNCHANGED <<config, env>>

CallGetFinalizedSourceTable ==
  /\ call' = "GET_FINALIZED_SOURCE_TABLE"
  /\ arguments' = <<>>
  /\ ret' = Returned(GET_FINALIZED_SOURCE_TABLE)
  /\ UNCHANGED <<config, env>>

CallGetBackfillStartDate ==
  /\ call' = "GET_BACKFILL_START_DATE"
  /\ arguments' = <<>>
  /\ ret' = Returned(GET_BACKFILL_START_DATE)
  /\ UNCHANGED <<config, env>>

CallGetBackfillEndDate ==
  /\ call' = "GET_BACKFILL_END_DATE"
  /\ arguments' = <<>>
  /\ ret' = Returned(GET_BACKFILL_END_DATE)
  /\ UNCHANGED <<config, env>>

CallGetFreshLoadDateFilter ==
  \E useFreshDaily \in BOOLEAN :
    /\ call' = "GET_FRESH_LOAD_DATE_FILTER"
    /\ arguments' = <<useFreshDaily>>
    /\ ret' = Returned(GET_FRESH_LOAD_DATE_FILTER(useFreshDaily))
    /\ UNCHANGED <<config, env>>

CallGetReconciliationDateFilter ==
  /\ call' = "GET_RECONCILIATION_DATE_FILTER"
  /\ arguments' = <<>>
  /\ ret' = Returned(GET_RECONCILIATION_DATE_FILTER)
  /\ UNCHANGED <<config, env>>

CallExcludeIntradayTables ==
  /\ call' = "EXCLUDE_INTRADAY_TABLES"
  /\ arguments' = <<>>
  /\ ret' = Returned(<<EXCLUDE_INTRADAY_TABLES>>)
  /\ UNCHANGED <<config, env>>

CallBackfillDateFilter ==
  /\ call' = "BACKFILL_DATE_FILTER"
  /\ arguments' = <<>>
  /\ ret' = Returned(BACKFILL_DATE_FILTER)
  /\ UNCHANGED <<config, env>>

NextPlan ==
  \/ CallPlan
  \/ CallGetFreshLoadDateFilter
  \/ CallGetReconciliationDateFilter
  \/ CallExcludeIntradayTables
  \/ CallBackfillDateFilter
  \/ CallGetFreshSourceTable
  \/ CallGetFinalizedSourceTable
  \/ CallGetBackfillStartDate
  \/ CallGetBackfillEndDate

SpecPlan == InitPlan /\ [][NextPlan]_vars

-----------------------------------------------------------------------------
(* Specification of the property and stream helpers *)

\* Property names a caller asks a filter for: the declared ones, one that no
\* configuration declares, and one inherited from Object.prototype.
RequestedNames == {"main_website", "mobile_app", "legacy_site", "toString"}

InitStreams ==
  /\ \E pc \in {NoProperties} \cup {Properties(ps) : ps \in PropertiesConfigs},
        t \in DataStreamTypes :
       config = [DefaultConfig EXCEPT !.PROPERTIES_CONFIG = pc,
                                      !.DATA_STREAM_TYPE = t]
  /\ env = DefaultEnv
  /\ call = "load"
  /\ arguments = <<>>
  /\ ret = <<>>

CallIsAdvancedMode ==
  /\ call' = "isAdvancedMode"
  /\ arguments' = <<>>
  /\ ret' = Returned(isAdvancedMode)
  /\ UNCHANGED <<config, env>>

CallGetIncludedStreams ==
  /\ call' = "getIncludedStreams"
  /\ arguments' = <<>>
  /\ ret' = Returned(getIncludedStreams)
  /\ UNCHANGED <<config, env>>

CallGenerateStreamFilter ==
  \E propertyName \in RequestedNames :
    /\ call' = "generateStreamFilter"
    /\ arguments' = <<propertyName>>
    /\ ret' = generateStreamFilter(propertyName)
    /\ UNCHANGED <<config, env>>

NextStreams ==
  \/ CallIsAdvancedMode
  \/ CallGetIncludedStreams
  \/ CallGetEffectiveDataStreamType
  \/ CallGenerateStreamFilter

SpecStreams == InitStreams /\ [][NextStreams]_vars

-----------------------------------------------------------------------------
(* Source declarations (definitions/declarations.js) *)

\* declare({ database, schema, name }) of the source project
Declaration(schema, name) == [schema |-> schema, name |-> name]

\* dataform.projectConfig.vars.SOURCE_DATASET
SOURCE_DATASET == "analytics_000000000"

\* A plausible slip: the global flag alone decides.
propertyUsesFreshDaily_GlobalOnly(property) == config.USE_FRESH_DAILY

\* Whether some stream of the property reads the fresh daily tables.
propertyUsesFreshDaily(property) ==
  \E i \in 1..Len(property.streams) :
    LET stream == property.streams[i]
    IN  IF stream.use_fresh_daily # undefined
          THEN stream.use_fresh_daily = "true"
          ELSE config.USE_FRESH_DAILY

DeclareProperty(property) ==
  <<Declaration(property.source_dataset, "events_*")>>
  \o (IF propertyUsesFreshDaily(property)
        THEN <<Declaration(property.source_dataset, "events_fresh_*")>>
        ELSE <<>>)

\* The sources declared when the file is loaded, in order.
declarations ==
  IF isAdvancedMode
    THEN Flatten(Map(DeclareProperty, config.PROPERTIES_CONFIG.properties))
    ELSE <<Declaration(SOURCE_DATASET, "events_*")>>
         \o (IF config.USE_FRESH_DAILY
               THEN <<Declaration(SOURCE_DATASET, "events_fresh_*")>>
               ELSE <<>>)

-----------------------------------------------------------------------------
(* Specification of configuration resolution *)

\* Texts a release configuration gives the backfill switch.
SwitchTexts == {"true", "false", "1", ""}
\* 'YYYYMMDD' texts a release configuration gives the backfill dates.
DateTexts == {EmptyText, 20240101, 20241231}

\* The compilation variables of a release.
Vars ==
  [FORCE_FULL_BACKFILL : {NotSet} \cup {Text(t) : t \in SwitchTexts},
   BACKFILL_START_DATE : {NotSet} \cup {Text(t) : t \in DateTexts},
   BACKFILL_END_DATE : {NotSet} \cup {Text(t) : t \in DateTexts}]

\* A layer that declares the settings of names, with the values of values.
Layer(names, values) == [k \in names |-> values[k]]

\* The `streams` objects of one property with at most n web streams, each
\* with or without its own use_fresh_daily, included or not.
FreshStreamLists(n, first) ==
  UNION { { [i \in 1..k |->
               Stream(StreamIds[first + i - 1], f[i][1], "web", f[i][2])] :
              f \in [1..k -> {undefined, "false"} \X {"true", "false", undefined}] } :
          k \in 0..n }

FreshPropertiesConfigs ==
  { <<Property(PropertyNames[1], s)>> : s \in FreshStreamLists(MaxStreams, 1) }
  \cup { <<Property(PropertyNames[1], s), Property(PropertyNames[2], t)>> :
            s \in FreshStreamLists(MaxStreams, 1),
            t \in FreshStreamLists(MaxStreams - 1, 4) }

\* Client configurations that declare some of the settings, among them
\* settings the framework layer has a value for.
ClientSettings ==
  [USE_FRESH_DAILY : BOOLEAN,
   ROLLING_REFRESH_DAYS : {5},
   CUSTOM_PARAMS_ARRAY : {<<>>, <<Param("client_tier", "string", undefined)>>}]

ClientConfigs ==
  { Layer(names, values) :
      names \in SUBSET {"USE_FRESH_DAILY", "ROLLING_REFRESH_DAYS", "CUSTOM_PARAMS_ARRAY"},
      values \in ClientSettings }
  \cup { [PROPERTIES_CONFIG |-> Properties(ps)] : ps \in FreshPropertiesConfigs }
  \cup { [PROPERTIES_CONFIG |-> Properties(ps), USE_FRESH_DAILY |-> TRUE] :
           ps \in FreshPropertiesConfigs }

\* The configuration is resolved when the module is loaded.
InitConfig ==
  /\ \E v \in Vars, c \in ClientConfigs :
       /\ v = NoVars \/ c = NoClientConfig
       /\ env = [DefaultEnv EXCEPT !.vars = v, !.clientConfig = c]
       /\ config = resolve(v, c)
  /\ call = "load"
  /\ arguments = <<>>
  /\ ret = <<>>

CallGetConfig ==
  /\ call' = "getConfig"
  /\ arguments' = <<>>
  /\ ret' = Returned(getConfig(env.vars))
  /\ UNCHANGED <<config, env>>

CallResolve ==
  /\ call' = "resolve"
  /\ arguments' = <<>>
  /\ ret' = Returned(resolve(env.vars, env.clientConfig))
  /\ UNCHANGED <<config, env>>

CallDeclarations ==
  /\ call' = "declarations"
  /\ arguments' = <<>>
  /\ ret' = Returned(declarations)
  /\ UNCHANGED <<config, env>>

NextConfig ==
  \/ CallGetConfig
  \/ CallResolve
  \/ CallGetIncludedStreams
  \/ CallDeclarations

SpecConfig == InitConfig /\ [][NextConfig]_vars

-----------------------------------------------------------------------------
(* Properties of the identity key and of parameter consolidation *)

\* The components of a joined key: its arguments without the separators.
KeyComponents(args) == [i \in 1..((Len(args) + 1) \div 2) |-> args[2 * i - 1]]

NamesOf(params) == [i \in 1..Len(params) |-> params[i].name]

\* The columns the key assumes are always present.
AlwaysPresent == {"event_timestamp", "event_name"}

\* An event row over the columns the key reads, NULL exactly in the columns N.
RowWithNulls(args, N) ==
  [c \in {args[i].field : i \in 1..Len(args)} |->
     IF c \in N THEN SqlNull ELSE SqlString(<<"v">>)]

\* The columns of a key other than the always-present ones.
NullableColumns(args) ==
  {KeyComponents(args)[i].field : i \in 1..Len(KeyComponents(args))} \ AlwaysPresent

\* C1: every component of the identity key other than the event timestamp
\* and the event name is coalesced to '', so the CONCAT of the key is not
\* NULL for a row that is NULL in any one of those columns, or in all of them.
C1_KeyNullSafe ==
  call = "GENERATE_EVENT_KEY_CONCAT" =>
    LET comps == KeyComponents(ret)
        nullable == NullableColumns(ret)
    IN  /\ \A i \in 1..Len(comps) :
             comps[i].field \notin AlwaysPresent =>
               comps[i].expr \in {"COALESCE", "COALESCE_CAST"}
        /\ \A N \in {nullable} \cup {{f} : f \in nullable} :
             ~SqlConcat(ret, RowWithNulls(ret, N)).isNull

\* A consolidated key (consolidated names and parameters of every catalog)
\* evaluated over a row that is NULL in every nullable column.
C1_Witness ==
  /\ call = "GENERATE_EVENT_KEY_CONCAT"
  /\ shouldConsolidateParams
  /\ Len(KeyComponents(ret)) >= 13
  /\ \E i \in 1..Len(ret) : ret[i].expr = "COALESCE" /\ ret[i].field \in ConsolidatedNames
  /\ ~SqlConcat(ret, RowWithNulls(ret, NullableColumns(ret))).isNull

\* First position of x in s
IndexIn(s, x) == CHOOSE i \in 1..Len(s) : s[i] = x /\ \A j \in 1..(i - 1) : s[j] # x

C3_ConsolidateOnlyForBoth ==
  call = "shouldConsolidateParams" =>
    LET props == config.PROPERTIES_CONFIG.properties
        types == { props[p].streams[i].stream_type :
                     <<p, i>> \in { pi \in (1..Len(props)) \X (1..(MaxStreams + 1)) :
                                      /\ pi[2] <= Len(props[pi[1]].streams)
                                      /\ props[pi[1]].streams[pi[2]].include # "false" } }
        effective == IF config.PROPERTIES_CONFIG.isNull THEN config.DATA_STREAM_TYPE
                     ELSE IF types = {"web"} THEN "web"
                     ELSE IF types = {"app"} THEN "app"
                     ELSE "both"
    IN  /\ effective # "both" => ret = FALSE
        /\ ret = TRUE <=> (effective = "both" /\ config.CONSOLIDATE_WEB_APP_PARAMS)

\* The raw flag is true, the included streams are all web-typed (advanced
\* mode, with an excluded app stream), and the decision is false.
C3_Witness ==
  /\ call = "shouldConsolidateParams"
  /\ isAdvancedMode
  /\ config.CONSOLIDATE_WEB_APP_PARAMS
  /\ getEffectiveDataStreamType = "web"
  /\ \E p \in Range(config.PROPERTIES_CONFIG.properties) :
       \E s \in Range(p.streams) : s.include = "false" /\ s.stream_type = "app"
  /\ ret = FALSE

\* The parameters of a catalog that declare the consolidated name n.
DeclaredBy(params, n) ==
  {params[i].name : i \in {j \in 1..Len(params) : params[j].consolidated_name = n}}

-----------------------------------------------------------------------------
(* Properties of parameter extraction *)

ExtractCalls ==
  { "EXTRACT_EVENT_PARAMS", "EXTRACT_WEB_PARAMS", "EXTRACT_APP_PARAMS",
    "EXTRACT_CUSTOM_PARAMS", "EXTRACT_USER_PROPS", "EXTRACT_ITEMS_ARRAY" }

\* The configuration array a call extracts, and the array it tells the SQL to unnest.
ArrayKeyOf(fn) ==
  CASE fn = "EXTRACT_EVENT_PARAMS" -> "CORE_PARAMS_ARRAY"
    [] fn = "EXTRACT_WEB_PARAMS" -> "WEB_PARAMS_ARRAY"
    [] fn = "EXTRACT_APP_PARAMS" -> "APP_PARAMS_ARRAY"
    [] fn = "EXTRACT_CUSTOM_PARAMS" -> "CUSTOM_PARAMS_ARRAY"
    [] fn = "EXTRACT_USER_PROPS" -> "CORE_USER_PROPS_ARRAY"
    [] fn = "EXTRACT_ITEMS_ARRAY" -> "CUSTOM_ITEMS_PARAMS"
ExtractedArray == config[ArrayKeyOf(call)]
ExtractedFrom == IF call = "EXTRACT_ITEMS_ARRAY" THEN "items.item_params" ELSE arguments[1]

\* The declared types the documentation lists, in either letter case.
StringTypes == {"string", "STRING"}
IntTypes == {"int", "integer"}
FloatTypes == {"float", "double", "Double"}
Supported(type) == type \in StringTypes \cup IntTypes \cup FloatTypes
AllSupported(params) == \A i \in 1..Len(params) : Supported(params[i].type)
UniqueNames(params) ==
  \A i, j \in 1..Len(params) : params[i].name = params[j].name => i = j
FirstUnsupported(params) ==
  CHOOSE i \in 1..Len(params) :
    /\ ~Supported(params[i].type)
    /\ \A j \in 1..(i - 1) : Supported(params[j].type)

\* C5: for every parameter array with unique names and supported types the
\* extraction returns one expression per parameter, in the order of the
\* array and of the same length; an empty array returns an empty result and
\* raises no error.
C5_OnePerParamInOrder ==
  (call \in ExtractCalls /\ UniqueNames(ExtractedArray) /\ AllSupported(ExtractedArray)) =>
    /\ ~ret.threw
    /\ Len(ret.value) = Len(ExtractedArray)
    /\ \A i \in 1..Len(ExtractedArray) : ret.value[i].key = ExtractedArray[i].name
    /\ (ExtractedArray = <<>> => ret.value = <<>>)

\* Two parameters of different names have been extracted.
C5_Witness ==
  /\ call \in ExtractCalls
  /\ Len(ExtractedArray) = 2
  /\ UniqueNames(ExtractedArray)
  /\ AllSupported(ExtractedArray)
  /\ Len(ret.value) = 2

\* C6: each expression reads the value slot of the parameter's declared type
\* (string: string_value; int, integer: int_value; float, double:
\* double_value), looks one value up under the parameter's declared name in
\* the array the call names, and is aliased to that same name.
C6_SlotByType ==
  (call \in ExtractCalls /\ ~ret.threw) =>
    \A i \in 1..Len(ret.value) :
      LET param == ExtractedArray[i]
          expression == ret.value[i]
      IN  /\ param.type \in StringTypes => expression.select = "string_value"
          /\ param.type \in IntTypes => expression.select = "int_value"
          /\ param.type \in FloatTypes => expression.select = "double_value"
          /\ expression.key = param.name
          /\ expression.alias = param.name
          /\ expression.unnest = ExtractedFrom

\* A float and an int parameter have been extracted by one call.
C6_Witness ==
  /\ call \in ExtractCalls
  /\ ~ret.threw
  /\ Len(ret.value) = 2
  /\ ExtractedArray[1].type = "float"
  /\ ExtractedArray[2].type = "int"

\* C7 as stated: an array holding a parameter of unsupported type raises an
\* error whose message names the offending parameter and the array that
\* contains it (the configuration array or the array the SQL unnests).
C7_NamesParameterAndArray ==
  (call \in ExtractCalls /\ ~AllSupported(ExtractedArray)) =>
    /\ ret.threw
    /\ ExtractedArray[FirstUnsupported(ExtractedArray)].name \in Range(ret.error.message)
    /\ \/ ArrayKeyOf(call) \in Range(ret.error.message)
       \/ ExtractedFrom \in Range(ret.error.message)

\* C7, amended: an array holding a parameter of unsupported type raises an
\* Error whose message names the first offending parameter and its declared
\* type, and names no array.
C7_NamesParameterAndType ==
  (call \in ExtractCalls /\ ~AllSupported(ExtractedArray)) =>
    LET param == ExtractedArray[FirstUnsupported(ExtractedArray)]
    IN  /\ ret.threw
        /\ ret.error.name = "Error"
        /\ param.name \in Range(ret.error.message)
        /\ param.type \in Range(ret.error.message)
        /\ ArrayKeyOf(call) \notin Range(ret.error.message)
        /\ ExtractedFrom \notin Range(ret.error.message)

\* An array whose second parameter is of type "currency" has been extracted.
C7_Witness ==
  /\ call \in ExtractCalls
  /\ Len(ExtractedArray) = 2
  /\ ExtractedArray[1].type = "string"
  /\ ExtractedArray[2].type = "currency"
  /\ ret.threw

\* C8: if any parameter of the array is of unsupported type, whatever its
\* position, the call returns no expression for any parameter of the array:
\* the error is the only outcome.
C8_NoPartialOutput ==
  (call \in ExtractCalls /\ ~AllSupported(ExtractedArray)) =>
    /\ ret.threw
    /\ ret.value = <<>>

\* A supported parameter stood before the unsupported one.
C8_Witness ==
  /\ call \in ExtractCalls
  /\ Len(ExtractedArray) = 2
  /\ Supported(ExtractedArray[1].type)
  /\ ~Supported(ExtractedArray[2].type)
  /\ ret.threw
  /\ ret.value = <<>>

-----------------------------------------------------------------------------
(* Properties of the refresh plan *)

\* The days a plan covers and the source kind it gives a day.
PlanDays(entries) == {entries[i].calendar_day : i \in 1..Len(entries)}
KindsOf(entries, day) ==
  {entries[i].source_kind : i \in {j \in 1..Len(entries) : entries[j].calendar_day = day}}
RollingRequest ==
  /\ call = "plan"
  /\ ~arguments.backfill.active
  /\ ~arguments.initialLoad
  /\ arguments.rollingWindowDays >= 1
BackfillRequest ==
  /\ call = "plan"
  /\ arguments.backfill.active

C10_BackfillRange ==
  BackfillRequest =>
    LET start == arguments.backfill.start
        end == arguments.backfill.end
        first == PARSE_DATE(start)
        last == PARSE_DATE(end)
    IN  /\ PlanDays(ret.value) = {FORMAT_DATE(d) : d \in first..last}
        /\ Len(ret.value) = Cardinality(first..last)
        /\ \A i \in 1..Len(ret.value) : ret.value[i].source_kind = "finalized"
        /\ first <= last => ~ret.threw
        /\ (start = 20240101 /\ end = 20240103) =>
             /\ Len(ret.value) = 3
             /\ PlanDays(ret.value) = {20240101, 20240102, 20240103}
        /\ (start = 20240228 /\ end = 20240302) =>
             PlanDays(ret.value) = {20240228, 20240229, 20240301, 20240302}

\* The backfill of 20240101..20240103 has been planned with fresh enabled
\* and a rolling window that is not 3.
C10_Witness ==
  /\ BackfillRequest
  /\ arguments.backfill.start = 20240101
  /\ arguments.backfill.end = 20240103
  /\ arguments.useFreshDaily
  /\ arguments.rollingWindowDays # 3
  /\ Len(ret.value) = 3

\* The n most recent days up to today, as 'YYYYMMDD' texts (none if n <= 0).
MostRecentDays(today, n) == {FORMAT_DATE(today - k) : k \in 0..(n - 1)}
\* The days from start to end, both 'YYYYMMDD' texts (none if start is after end).
DaysBetween(start, end) == {FORMAT_DATE(d) : d \in PARSE_DATE(start)..PARSE_DATE(end)}

\* C11: exactly one of the three modes decides a plan, by priority: backfill
\* whenever the backfill flag is set (even if the target table does not
\* exist), otherwise initial load when the target table does not exist,
\* otherwise rolling refresh.  The plan covers the days of that mode only.
C11_ModePriority ==
  call = "plan" =>
    LET scope ==
          IF arguments.backfill.active
            THEN DaysBetween(arguments.backfill.start, arguments.backfill.end)
            ELSE IF arguments.initialLoad
              THEN MostRecentDays(arguments.today, config.INITIAL_LOAD_DAYS)
              ELSE MostRecentDays(arguments.today, arguments.rollingWindowDays)
    IN  /\ PlanDays(ret.value) = scope
        /\ Len(ret.value) = Cardinality(scope)

\* A backfill has been planned although the target table does not exist, and
\* its days are not those of an initial load.
C11_Witness ==
  /\ BackfillRequest
  /\ arguments.initialLoad
  /\ Len(ret.value) > 0
  /\ PlanDays(ret.value) # MostRecentDays(arguments.today, config.INITIAL_LOAD_DAYS)

\* Thirteen months and one day before each value of CURRENT_DATE().
ThirteenMonthsBefore(today) ==
  CASE today = 20250310 -> 20240210
    [] today = 20250301 -> 20240201
    [] today = 20240331 -> 20230228
    [] today = 20250101 -> 20231201
DayBefore(today) ==
  CASE today = 20250310 -> 20250309
    [] today = 20250301 -> 20250228
    [] today = 20240331 -> 20240330
    [] today = 20250101 -> 20241231
ExpectedBackfillStart ==
  IF config.BACKFILL_START_DATE # NoDate THEN config.BACKFILL_START_DATE
  ELSE ThirteenMonthsBefore(FORMAT_DATE(env.today))
ExpectedBackfillEnd ==
  IF config.BACKFILL_END_DATE # NoDate THEN config.BACKFILL_END_DATE
  ELSE DayBefore(FORMAT_DATE(env.today))

\* C12: the backfill start is the supplied start date when one is supplied
\* and today minus 13 months otherwise; the backfill end is the supplied end
\* date when one is supplied and today minus 1 day otherwise; each default
\* applies whether or not the other date is supplied.
C12_BackfillDefaults ==
  /\ call = "GET_BACKFILL_START_DATE" =>
       EvalDate(ret.value, env.today) = ExpectedBackfillStart
  /\ call = "GET_BACKFILL_END_DATE" =>
       EvalDate(ret.value, env.today) = ExpectedBackfillEnd
  /\ call = "plan" =>
       /\ arguments.backfill.start = ExpectedBackfillStart
       /\ arguments.backfill.end = ExpectedBackfillEnd

\* The start has been defaulted on 2024-03-31 while an end date was supplied.
C12_Witness ==
  /\ call = "GET_BACKFILL_START_DATE"
  /\ config.BACKFILL_START_DATE = NoDate
  /\ config.BACKFILL_END_DATE = 20240103
  /\ FORMAT_DATE(env.today) = 20240331
  /\ EvalDate(ret.value, env.today) = 20230228

InitialLoadRequest ==
  /\ call = "plan"
  /\ ~arguments.backfill.active
  /\ arguments.initialLoad

InvalidWindow ==
  \/ /\ ~arguments.backfill.active
     /\ ~arguments.initialLoad
     /\ arguments.rollingWindowDays <= 0
  \/ /\ arguments.backfill.active
     /\ PARSE_DATE(arguments.backfill.start) > PARSE_DATE(arguments.backfill.end)

Suffixes ==
  { Suffix(label, day) :
      label \in {"", "intraday_"},
      day \in MostRecentDays(env.today, 6) \cup {20240101, 20240102, 20240229} }
\* The call produced the filter of a read of the finalized table.
FinalizedRead ==
  \/ call = "GET_FRESH_LOAD_DATE_FILTER" /\ arguments[1] = FALSE
  \/ call = "GET_RECONCILIATION_DATE_FILTER"
  \/ call = "BACKFILL_DATE_FILTER"
\* A condition that rejects the intraday shards and nothing else.
ExcludesIntradayFamily(condition) ==
  \A suffix \in Suffixes :
    Holds(condition, suffix, env.today) <=> suffix.label # "intraday_"

\* C15: every filter generated for a read of the finalized source (the
\* fresh-load filter with fresh disabled, the reconciliation filter, the
\* backfill filter) excludes the intraday shard family: it carries a
\* condition that rejects exactly the intraday shards, and it selects no
\* intraday shard.
C15_IntradayExcluded ==
  FinalizedRead =>
    /\ \E i \in 1..Len(ret.value) : ExcludesIntradayFamily(ret.value[i])
    /\ \A suffix \in Suffixes :
         suffix.label = "intraday_" => ~Selects(ret.value, suffix, env.today)

\* The fresh-load filter has been generated with fresh disabled, and it
\* selects yesterday's daily shard.
C15_Witness ==
  /\ call = "GET_FRESH_LOAD_DATE_FILTER"
  /\ arguments[1] = FALSE
  /\ Selects(ret.value, Suffix("", FORMAT_DATE(env.today - 1)), env.today)

-----------------------------------------------------------------------------
(* Properties of the property and stream helpers *)

\* Every stream the configuration declares, with the property declaring it.
DeclaredStreams ==
  LET props == config.PROPERTIES_CONFIG.properties
  IN  UNION { { [property_name |-> props[p].property_name,
                 stream_id |-> props[p].streams[i].stream_id,
                 stream_type |-> props[p].streams[i].stream_type,
                 source_dataset |-> props[p].source_dataset,
                 include |-> props[p].streams[i].include,
                 use_fresh_daily |-> props[p].streams[i].use_fresh_daily] :
                i \in 1..Len(props[p].streams) } :
              p \in 1..Len(props) }

\* The declared streams that are not explicitly marked excluded.
NotExcluded == {s \in DeclaredStreams : s.include # "false"}

DeclaredNames ==
  {config.PROPERTIES_CONFIG.properties[p].property_name :
     p \in 1..Len(config.PROPERTIES_CONFIG.properties)}

\* C16: the mode is advanced exactly when PROPERTIES_CONFIG is not null; the
\* effective stream type is the declared type in simple mode, and in advanced
\* mode 'both' when a web and an app stream are included, 'web' ('app') when
\* the included streams are all web (app) typed; it is decided by the types
\* of the included streams alone, so an excluded stream never changes it.
C16_ModeAndEffectiveType ==
  /\ call = "isAdvancedMode" =>
       (ret.value = TRUE <=> ~config.PROPERTIES_CONFIG.isNull)
  /\ call = "getEffectiveDataStreamType" =>
       IF config.PROPERTIES_CONFIG.isNull
         THEN ret = config.DATA_STREAM_TYPE
         ELSE LET types == {s.stream_type : s \in NotExcluded}
              IN  /\ {"web", "app"} \subseteq types => ret = "both"
                  /\ types = {"web"} => ret = "web"
                  /\ types = {"app"} => ret = "app"
                  /\ types = {} => ret = "both"

\* Advanced mode, every included stream is web-typed, an app stream is
\* marked excluded, and the effective type is 'web'.
C16_Witness ==
  /\ call = "getEffectiveDataStreamType"
  /\ ~config.PROPERTIES_CONFIG.isNull
  /\ {s.stream_type : s \in NotExcluded} = {"web"}
  /\ \E s \in DeclaredStreams : s.include = "false" /\ s.stream_type = "app"
  /\ ret = "web"

\* C17: in advanced mode with no included stream (all are marked excluded,
\* or none is declared) nothing is raised: the included-stream list is empty,
\* the effective stream type is 'both', and the predicate of each declared
\* property is the always-false '1=0'.
C17_NoIncludedStream ==
  (~config.PROPERTIES_CONFIG.isNull /\ NotExcluded = {}) =>
    /\ call = "getIncludedStreams" => ret = Returned(<<>>)
    /\ call = "getEffectiveDataStreamType" => ret = "both"
    /\ (call = "generateStreamFilter" /\ arguments[1] \in DeclaredNames) =>
         /\ ~ret.threw
         /\ ret.value.sql = "1=0"
         /\ \A id \in Range(StreamIds) : ~Accepts(ret.value, id)

\* A declared property whose streams are all marked excluded is asked for
\* its predicate, and gets '1=0'.
C17_Witness ==
  /\ call = "generateStreamFilter"
  /\ ~config.PROPERTIES_CONFIG.isNull
  /\ DeclaredStreams # {}
  /\ NotExcluded = {}
  /\ arguments[1] \in DeclaredNames
  /\ ret = Returned(StreamPredicate("1=0", <<>>))

\* What an entry of the included-stream list says of its stream.
StreamRef(entry) ==
  [property_name |-> entry.property_name,
   stream_id |-> entry.stream_id,
   stream_type |-> entry.stream_type,
   source_dataset |-> entry.source_dataset]

\* C18: in advanced mode the included-stream list has exactly one entry for
\* every declared stream whose include marker is not false (a stream without
\* marker is included), none for a stream marked excluded, and each entry
\* carries its property name, stream id, stream type and its property's
\* source dataset.
C18_IncludedStreams ==
  (call = "getIncludedStreams" /\ ~config.PROPERTIES_CONFIG.isNull) =>
    /\ ~ret.threw
    /\ \A s \in DeclaredStreams :
         LET entries == {k \in 1..Len(ret.value) :
                           /\ ret.value[k].property_name = s.property_name
                           /\ ret.value[k].stream_id = s.stream_id}
         IN  IF s.include = "false"
               THEN entries = {}
               ELSE /\ Cardinality(entries) = 1
                    /\ \A k \in entries :
                         StreamRef(ret.value[k]) =
                           [property_name |-> s.property_name,
                            stream_id |-> s.stream_id,
                            stream_type |-> s.stream_type,
                            source_dataset |-> s.source_dataset]
    /\ \A k \in 1..Len(ret.value) :
         \E s \in DeclaredStreams :
           /\ ret.value[k].property_name = s.property_name
           /\ ret.value[k].stream_id = s.stream_id

\* Two properties with different source datasets, a stream without include
\* marker, a stream marked excluded: the list has the former and not the latter.
C18_Witness ==
  /\ call = "getIncludedStreams"
  /\ ~config.PROPERTIES_CONFIG.isNull
  /\ Cardinality({s.source_dataset : s \in NotExcluded}) = 2
  /\ \E s \in DeclaredStreams : s.include = undefined
  /\ \E s \in DeclaredStreams : s.include = "false"
  /\ Len(ret.value) = Cardinality(NotExcluded)

\* C19: in advanced mode, asking generateStreamFilter for a property name
\* that the configuration does not declare raises an error that names this
\* property, and returns no predicate.
C19_AbsentPropertyRaises ==
  (/\ call = "generateStreamFilter"
   /\ ~config.PROPERTIES_CONFIG.isNull
   /\ arguments[1] \notin DeclaredNames) =>
    /\ ret.threw
    /\ ret.value = <<>>
    /\ arguments[1] \in Range(ret.error.message)

\* The undeclared name 'toString' is found on Object.prototype: what is
\* raised is the TypeError of Object.keys(undefined), which names no property.
C19_Witness ==
  /\ call = "generateStreamFilter"
  /\ ~config.PROPERTIES_CONFIG.isNull
  /\ arguments[1] = "toString"
  /\ arguments[1] \notin DeclaredNames
  /\ ret.threw
  /\ ret.error.name = "TypeError"
  /\ arguments[1] \notin Range(ret.error.message)

-----------------------------------------------------------------------------
(* Properties of the identity key over event records *)

\* The column an event record holds a configured parameter in: the
\* consolidated column for a parameter that is consolidated, its own otherwise.
ColumnOf(param) ==
  IF shouldConsolidateParams /\ Truthy(param.consolidated_name)
    THEN param.consolidated_name
    ELSE param.name

\* The columns of the parameters configured for the effective stream type.
ConfiguredColumns ==
  LET inEffect ==
        config.CORE_PARAMS_ARRAY
        \o (IF getEffectiveDataStreamType \in {"web", "both"}
              THEN config.WEB_PARAMS_ARRAY ELSE <<>>)
        \o (IF getEffectiveDataStreamType \in {"app", "both"}
              THEN config.APP_PARAMS_ARRAY ELSE <<>>)
        \o config.CUSTOM_PARAMS_ARRAY
  IN  {ColumnOf(inEffect[i]) : i \in 1..Len(inEffect)}

\* An event record over the columns of the key and of the configured
\* parameters: the column f holds v, the columns N are NULL, every other
\* column holds a text.
RecordWith(args, N, f, v) ==
  [c \in {args[i].field : i \in 1..Len(args)} \cup ConfiguredColumns |->
     IF c = f THEN v ELSE IF c \in N THEN SqlNull ELSE SqlString(<<"v">>)]

\* The values of the key components over a record, in key order.
ComponentValues(args, row) ==
  [i \in 1..Len(KeyComponents(args)) |-> EvalKeyArg(KeyComponents(args)[i], row)]

\* Two records differ in the column f alone, where one holds v and the other
\* NULL: their component values are non-empty lists, distinct, and differ
\* at the components reading f only.
DiffersOnlyAt(args, N, f, v) ==
  LET with == ComponentValues(args, RecordWith(args, N \ {f}, f, v))
      without == ComponentValues(args, RecordWith(args, N \ {f}, f, SqlNull))
  IN  /\ Len(with) > 0 /\ Len(without) > 0
      /\ with # without
      /\ \A k \in 1..Len(with) :
           with[k] # without[k] => KeyComponents(args)[k].field = f

\* C20: two records identical except that one has NULL for one configured
\* parameter have non-empty, distinct component values that differ only at
\* this parameter's position.
C20_NullParameterDistinct ==
  call = "GENERATE_EVENT_KEY_CONCAT" =>
    \A f \in ConfiguredColumns :
      \A N \in {{}, NullableColumns(ret)} :
        \A v \in {SqlString(<<"v">>), SqlString(<<>>)} :
          DiffersOnlyAt(ret, N, f, v)

\* Consolidation is on and a web parameter declares no consolidated name:
\* no component of the key reads it, and the records that differ in it have
\* the same component values.
C20_Witness ==
  /\ call = "GENERATE_EVENT_KEY_CONCAT"
  /\ shouldConsolidateParams
  /\ \E i \in 1..Len(config.WEB_PARAMS_ARRAY) :
       LET param == config.WEB_PARAMS_ARRAY[i]
       IN  /\ ~Truthy(param.consolidated_name)
           /\ param.name \in ConfiguredColumns
           /\ \A k \in 1..Len(ret) : ret[k].field # param.name
           /\ ComponentValues(ret, RecordWith(ret, {}, param.name, SqlString(<<"v">>)))
                = ComponentValues(ret, RecordWith(ret, {}, param.name, SqlNull))
  /\ \E i \in 1..Len(config.APP_PARAMS_ARRAY) :
       LET param == config.APP_PARAMS_ARRAY[i]
       IN  /\ ~Truthy(param.consolidated_name)
           /\ DiffersOnlyAt(ret, {}, param.name, SqlString(<<"v">>))

-----------------------------------------------------------------------------
(* Properties of the identity key: what decides it *)

\* What the key may depend on: the catalogs, the consolidation flag and the
\* effective stream type.
KeyInputs ==
  [core |-> config.CORE_PARAMS_ARRAY,
   web |-> config.WEB_PARAMS_ARRAY,
   app |-> config.APP_PARAMS_ARRAY,
   custom |-> config.CUSTOM_PARAMS_ARRAY,
   flag |-> config.CONSOLIDATE_WEB_APP_PARAMS,
   type |-> getEffectiveDataStreamType]

\* s without the later occurrences of its elements
RECURSIVE Distinct(_)
Distinct(s) ==
  IF s = <<>> THEN <<>>
  ELSE LET front == Distinct(SubSeq(s, 1, Len(s) - 1))
       IN  IF s[Len(s)] \in Range(front) THEN front ELSE Append(front, s[Len(s)])

\* The component list as a function of the key inputs alone.
DeterminedKey(in) ==
  LET coalesced(names) == [i \in 1..Len(names) |-> KeyField("COALESCE_CAST", names[i])]
      plain(params) ==
        NamesOf(SelectSeq(params, LAMBDA p : ~Truthy(p.consolidated_name)))
      merged(params) ==
        Map(LAMBDA p : p.consolidated_name,
            SelectSeq(params, LAMBDA p : Truthy(p.consolidated_name)))
      middle ==
        IF in.type = "both" /\ in.flag
          THEN coalesced(plain(in.app))
               \o [i \in 1..Len(Distinct(merged(in.web) \o merged(in.app))) |->
                     KeyField("COALESCE", Distinct(merged(in.web) \o merged(in.app))[i])]
          ELSE (IF in.type # "app" THEN coalesced(NamesOf(in.web)) ELSE <<>>)
               \o (IF in.type # "web" THEN coalesced(NamesOf(in.app)) ELSE <<>>)
  IN  BaseKeyFields \o coalesced(NamesOf(in.core)) \o middle
        \o coalesced(NamesOf(in.custom))

\* C21: the component list of the key is a function of the catalog contents,
\* the consolidation flag and the effective stream type: a call returns the
\* list these decide, so two calls under one configuration, or under two
\* configurations that agree on the three, return the same list.
C21_KeyDeterminedByInputs ==
  call = "GENERATE_EVENT_KEY_CONCAT" =>
    KeyComponents(ret) = DeterminedKey(KeyInputs)

\* Advanced mode, where the declared stream type is not the effective one
\* and takes no part in the key.
C21_Witness ==
  /\ call = "GENERATE_EVENT_KEY_CONCAT"
  /\ isAdvancedMode
  /\ config.DATA_STREAM_TYPE = "app"
  /\ getEffectiveDataStreamType = "web"
  /\ KeyComponents(ret) = DeterminedKey(KeyInputs)
  /\ \E i \in 1..Len(ret) : ret[i].field = "page_location"

-----------------------------------------------------------------------------
(* Properties of configuration resolution *)

\* C22: the compilation variables decide the backfill settings, with no edit
\* of the configuration files: the backfill is on exactly when the variable
\* FORCE_FULL_BACKFILL is the text 'true', a start or end date given by a
\* variable is the configured one, and with no variable set the backfill is
\* off and both dates are unset (null: calculated when used).
C22_RunTimeOverrides ==
  call = "getConfig" =>
    LET projectVars == env.vars
        given(v) == v.set /\ v.text # EmptyText
    IN  /\ ret.value.FORCE_FULL_BACKFILL = TRUE <=> projectVars.FORCE_FULL_BACKFILL = Text("true")
        /\ given(projectVars.BACKFILL_START_DATE) =>
             ret.value.BACKFILL_START_DATE = projectVars.BACKFILL_START_DATE.text
        /\ given(projectVars.BACKFILL_END_DATE) =>
             ret.value.BACKFILL_END_DATE = projectVars.BACKFILL_END_DATE.text
        /\ projectVars = NoVars =>
             /\ ret.value.FORCE_FULL_BACKFILL = FALSE
             /\ ret.value.BACKFILL_START_DATE = NoDate
             /\ ret.value.BACKFILL_END_DATE = NoDate

\* A release that switches the backfill on and gives its start date only.
C22_Witness ==
  /\ call = "getConfig"
  /\ env.vars.FORCE_FULL_BACKFILL = Text("true")
  /\ env.vars.BACKFILL_START_DATE = Text(20240101)
  /\ env.vars.BACKFILL_END_DATE = NotSet
  /\ ret.value.FORCE_FULL_BACKFILL
  /\ ret.value.BACKFILL_START_DATE = 20240101
  /\ ret.value.BACKFILL_END_DATE = NoDate

\* The settings of the framework layer, under the compilation variables.
FrameworkLayer == coreConfig(env.vars)

-----------------------------------------------------------------------------
(* Properties of catalog validation *)

\* Two parameters of the array have the same name.
HasDuplicateName(params) ==
  \E i, j \in 1..Len(params) : i < j /\ params[i].name = params[j].name

\* C24: an array holding two parameters of the same name makes the
\* generation fail with an error: no field expression is returned for it.
C24_DuplicateNameFails ==
  (call \in ExtractCalls /\ HasDuplicateName(ExtractedArray)) =>
    /\ ret.threw
    /\ ret.value = <<>>

\* An array that declares the same name twice, with supported types, has
\* been extracted: two expressions of the same alias are returned, no error.
C24_Witness ==
  /\ call \in ExtractCalls
  /\ Len(ExtractedArray) = 2
  /\ ExtractedArray[1].name = ExtractedArray[2].name
  /\ AllSupported(ExtractedArray)
  /\ ~ret.threw
  /\ Len(ret.value) = 2
  /\ ret.value[1].alias = ret.value[2].alias

-----------------------------------------------------------------------------
(* Properties of the identity key: the parameters it covers *)

\* The names the key reads.
KeyColumns(args) == {args[k].field : k \in 1..Len(args)}

\* C25: the key has a component for every parameter configured for the
\* effective stream type, under the parameter's own name or under the
\* consolidated name it declares; with consolidation active this includes
\* the web parameters that declare no consolidated name.
C25_KeyCoversParameters ==
  call = "GENERATE_EVENT_KEY_CONCAT" =>
    ConfiguredColumns \subseteq KeyColumns(ret)

\* Consolidation is active; the app parameter without consolidated name is
\* in the key, the web parameter without consolidated name is not.
C25_Witness ==
  /\ call = "GENERATE_EVENT_KEY_CONCAT"
  /\ getEffectiveDataStreamType = "both"
  /\ config.CONSOLIDATE_WEB_APP_PARAMS
  /\ \E p \in Range(config.APP_PARAMS_ARRAY) :
       ~Truthy(p.consolidated_name) /\ p.name \in KeyColumns(ret)
  /\ \E p \in Range(config.WEB_PARAMS_ARRAY) :
       ~Truthy(p.consolidated_name) /\ p.name \notin KeyColumns(ret)
  /\ \A p \in Range(config.WEB_PARAMS_ARRAY) \cup Range(config.APP_PARAMS_ARRAY) :
       Truthy(p.consolidated_name) => p.consolidated_name \in KeyColumns(ret)

-----------------------------------------------------------------------------
(* Properties of the consumers of the consolidation decision *)

\* The decision, from the configuration: the included streams are of both
\* types (or, in simple mode, the declared type is 'both') and the flag is set.
EffectiveTypeOfConfig ==
  IF config.PROPERTIES_CONFIG.isNull THEN config.DATA_STREAM_TYPE
  ELSE LET types == {s.stream_type : s \in NotExcluded}
       IN  IF types = {"web"} THEN "web" ELSE IF types = {"app"} THEN "app" ELSE "both"

Decision == EffectiveTypeOfConfig = "both" /\ config.CONSOLIDATE_WEB_APP_PARAMS

\* The consolidated names the web and app catalogs declare.
DeclaredConsolidatedNames ==
  {p.consolidated_name :
     p \in {q \in Range(config.WEB_PARAMS_ARRAY) \cup Range(config.APP_PARAMS_ARRAY) :
              Truthy(q.consolidated_name)}}

\* C26: in simple and in advanced mode the four consumers follow the one
\* decision. CONSOLIDATE_PARAMS emits the consolidated fields, the key reads
\* the consolidated names, getScreenFieldRefs returns the page.screen_*
\* references and getPageSessionKeyRef, for type 'both', returns the
\* consolidated key, each exactly when the decision is true; for the
\* effective types 'web' and 'app' their output is the one of the unset flag.
C26_ConsumersAgree ==
  /\ call = "CONSOLIDATE_PARAMS" =>
       /\ {ret[i].alias : i \in 1..Len(ret)} =
            (IF Decision THEN DeclaredConsolidatedNames ELSE {})
       /\ EffectiveTypeOfConfig # "both" => ret = <<>>
  /\ call = "GENERATE_EVENT_KEY_CONCAT" =>
       /\ {ret[i].field : i \in {j \in 1..Len(ret) : ret[j].expr = "COALESCE"}}
            \ {"user_id"} =
            (IF Decision THEN DeclaredConsolidatedNames ELSE {})
       /\ EffectiveTypeOfConfig # "both" =>
            /\ KeyComponents(ret) = DeterminedKey([KeyInputs EXCEPT !.flag = FALSE])
            /\ KeyComponents(ret) = DeterminedKey([KeyInputs EXCEPT !.flag = TRUE])
  /\ call = "getScreenFieldRefs" =>
       /\ ret.location = "page.screen_location" <=> Decision
       /\ ret.key = "page.screen_key" <=> Decision
       /\ EffectiveTypeOfConfig = "web" => ret.location = "page.page_location"
       /\ EffectiveTypeOfConfig = "app" => ret.location = "app.firebase_screen"
  /\ call = "getPageSessionKeyRef" =>
       /\ EffectiveTypeOfConfig = "both" => (ret = "screen_session_key" <=> Decision)
       /\ EffectiveTypeOfConfig = "web" => ret = "page_session_key"
       /\ EffectiveTypeOfConfig = "app" => ret = "screen_session_key"

\* Advanced mode with web streams only and the flag set: the page session
\* key is the web one, as with the flag unset.
C26_Witness ==
  /\ call = "getPageSessionKeyRef"
  /\ ~config.PROPERTIES_CONFIG.isNull
  /\ EffectiveTypeOfConfig = "web"
  /\ config.CONSOLIDATE_WEB_APP_PARAMS
  /\ ~Decision
  /\ ret = "page_session_key"

-----------------------------------------------------------------------------
(* Properties of the key against the projection *)

-----------------------------------------------------------------------------
(* Properties of the per-property inclusion predicate *)

\* The declared property of this name.
DeclaredProperty(name) ==
  CHOOSE property \in Range(config.PROPERTIES_CONFIG.properties) :
    property.property_name = name

\* The ids of the streams of a property that are not marked excluded.
OwnIncludedIds(property) ==
  {s.stream_id : s \in {t \in Range(property.streams) : t.include # "false"}}

\* C28: in advanced mode the predicate of a declared property P accepts a
\* stream id exactly when it is a stream of P not marked excluded, which are
\* the entries getIncludedStreams lists for P; it is an equality for one id,
\* a set membership for several, '1=0' for none; it is decided by P's own
\* declaration, whatever the other properties declare. In simple mode the
\* predicate is '1=1'.
C28_PredicateOfProperty ==
  call = "generateStreamFilter" =>
    IF config.PROPERTIES_CONFIG.isNull
      THEN ret = Returned(StreamPredicate("1=1", <<>>))
      ELSE arguments[1] \in DeclaredNames =>
             LET own == OwnIncludedIds(DeclaredProperty(arguments[1]))
                 listed == {getIncludedStreams[k].stream_id :
                              k \in {j \in 1..Len(getIncludedStreams) :
                                       getIncludedStreams[j].property_name = arguments[1]}}
             IN  /\ ~ret.threw
                 /\ \A id \in Range(StreamIds) : Accepts(ret.value, id) <=> id \in own
                 /\ own = listed
                 /\ Range(ret.value.ids) = own
                 /\ ret.value.sql = CASE Cardinality(own) = 0 -> "1=0"
                                      [] Cardinality(own) = 1 -> "stream_id ="
                                      [] OTHER -> "stream_id IN"

\* Two properties: the predicate of the first is the set membership over
\* its two included streams, while the second has an excluded stream.
C28_Witness ==
  /\ call = "generateStreamFilter"
  /\ arguments[1] = "main_website"
  /\ DeclaredNames = {"main_website", "mobile_app"}
  /\ Cardinality(OwnIncludedIds(DeclaredProperty("main_website"))) = 2
  /\ \E t \in Range(DeclaredProperty("mobile_app").streams) : t.include = "false"
  /\ ret.value.sql = "stream_id IN"
  /\ Range(ret.value.ids) = OwnIncludedIds(DeclaredProperty("main_website"))

-----------------------------------------------------------------------------
(* Properties of the joined key *)

\* The columns of the key that hold texts of the events: the string-typed
\* web and app parameters and the consolidated fields.
TextColumns ==
  {p.name : p \in {q \in Range(config.WEB_PARAMS_ARRAY) \cup Range(config.APP_PARAMS_ARRAY) :
                     q.type = "string"}}
  \cup ConsolidatedNames

\* An event over the columns of the key: f holds x, g holds y, every other
\* column the text 'v'.
EventWith(args, f, x, g, y) ==
  [c \in {args[i].field : i \in 1..Len(args)} |->
     IF c = f THEN SqlString(x) ELSE IF c = g THEN SqlString(y) ELSE SqlString(<<"v">>)]

\* Texts with and without the character of the separator.
Texts == { <<"a">>, <<"a", "-", "b">>, <<"b", "-", "c">>, <<"c">> }

\* C29: two events whose component values differ have different joined
\* keys.
C29_JoinInjective ==
  call = "GENERATE_EVENT_KEY_CONCAT" =>
    \A i \in 1..(Len(KeyComponents(ret)) - 1) :
      LET f == KeyComponents(ret)[i].field
          g == KeyComponents(ret)[i + 1].field
      IN  (f \in TextColumns /\ g \in TextColumns /\ f # g) =>
            \A x1, y1, x2, y2 \in Texts :
              LET e1 == EventWith(ret, f, x1, g, y1)
                  e2 == EventWith(ret, f, x2, g, y2)
              IN  ComponentValues(ret, e1) # ComponentValues(ret, e2) =>
                    SqlConcat(ret, e1) # SqlConcat(ret, e2)

\* Two web parameters side by side in the key: the events ('a-b', 'c') and
\* ('a', 'b-c') have different component values and the same joined key.
C29_Witness ==
  /\ call = "GENERATE_EVENT_KEY_CONCAT"
  /\ getEffectiveDataStreamType = "web"
  /\ Len(config.WEB_PARAMS_ARRAY) = 2
  /\ LET f == config.WEB_PARAMS_ARRAY[1].name
         g == config.WEB_PARAMS_ARRAY[2].name
         e1 == EventWith(ret, f, <<"a", "-", "b">>, g, <<"c">>)
         e2 == EventWith(ret, f, <<"a">>, g, <<"b", "-", "c">>)
     IN  /\ ComponentValues(ret, e1) # ComponentValues(ret, e2)
         /\ ~SqlConcat(ret, e1).isNull
         /\ SqlConcat(ret, e1) = SqlConcat(ret, e2)

-----------------------------------------------------------------------------
(* Properties of the fresh daily sources *)

\* Whether a declared stream reads the fresh daily tables: its own setting
\* when it has one, the global USE_FRESH_DAILY otherwise.
EffectiveFreshDaily(stream) ==
  IF stream.use_fresh_daily # undefined
    THEN stream.use_fresh_daily = "true"
    ELSE config.USE_FRESH_DAILY

\* The declarations made for the dataset of a property.
SourcesDeclared(decls, schema) ==
  {decls[i].name : i \in {j \in 1..Len(decls) : decls[j].schema = schema}}

\* C30: in advanced mode a stream's effective use_fresh_daily is its own
\* setting when defined and the global USE_FRESH_DAILY otherwise, the
\* finalized source of every property is declared, and its fresh source is
\* declared only if one of its streams uses fresh daily; in simple mode the
\* finalized source is declared and the fresh source is declared exactly
\* when the global flag is true.
C30_FreshDailySources ==
  /\ (call = "getIncludedStreams" /\ isAdvancedMode) =>
       \A i \in 1..Len(ret.value) :
         LET entry == ret.value[i]
             stream == CHOOSE s \in Range(DeclaredProperty(entry.property_name).streams) :
                         s.stream_id = entry.stream_id
         IN  (entry.use_fresh_daily = "true") <=> EffectiveFreshDaily(stream)
  /\ (call = "declarations" /\ isAdvancedMode) =>
       \A property \in Range(config.PROPERTIES_CONFIG.properties) :
         LET names == SourcesDeclared(ret.value, property.source_dataset)
         IN  /\ "events_*" \in names
             /\ "events_fresh_*" \in names =>
                  \E s \in Range(property.streams) : EffectiveFreshDaily(s)
  /\ (call = "declarations" /\ ~isAdvancedMode) =>
       LET names == SourcesDeclared(ret.value, SOURCE_DATASET)
       IN  /\ "events_*" \in names
           /\ "events_fresh_*" \in names <=> config.USE_FRESH_DAILY

\* The global flag is on and every stream of the first property turns it
\* off for itself, so that property has no fresh source, while a stream of
\* the second property inherits the flag and its fresh source is declared.
C30_Witness ==
  /\ call = "declarations"
  /\ isAdvancedMode
  /\ config.USE_FRESH_DAILY
  /\ Len(config.PROPERTIES_CONFIG.properties) = 2
  /\ LET first == config.PROPERTIES_CONFIG.properties[1]
         second == config.PROPERTIES_CONFIG.properties[2]
     IN  /\ first.streams # <<>>
         /\ \A s \in Range(first.streams) : s.use_fresh_daily = "false"
         /\ \E s \in Range(second.streams) : s.use_fresh_daily = undefined
         /\ "events_fresh_*" \notin SourcesDeclared(ret.value, first.source_dataset)
         /\ "events_fresh_*" \in SourcesDeclared(ret.value, second.source_dataset)

====
